---- MODULE Spec2Model ----
(***************************************************************************)
(* Model of devspin_cli: the dependency resolver, the start orchestrator   *)
(* (StartArgs::execute) and the process registry (ProcessState behind the  *)
(* GLOBAL_STATE mutex).                                                    *)
(*                                                                         *)
(* Strings are sequences of one-character strings, so that trim() and      *)
(* is_empty() are computed and not tabulated: the name "A" is <<"A">>.     *)
(***************************************************************************)
EXTENDS Integers, Sequences, FiniteSets, TLC

(***************************************************************************)
(* Bounds of the model.                                                    *)
(***************************************************************************)
MaxServices == 3
MaxDeps == 2
MaxEdges == 3

(***************************************************************************)
(* Strings and small helpers.                                              *)
(***************************************************************************)
NamePool == <<"A", "B", "C", "D", "E", "F">>

SvcNames == {<<NamePool[i]>> : i \in 1..MaxServices}

\* a dependency name that no project declares
UnknownName == <<"X">>

DepNames == SvcNames \cup {UnknownName}

\* Option<T>: None is the empty sequence, Some(x) the sequence of x alone
NoneOpt == <<>>

Some(x) == <<x>>

IsSome(o) == Len(o) = 1

Unwrap(o) == o[1]

Range(s) == {s[i] : i \in 1..Len(s)}

SeqsUpTo(S, n) == UNION {[1..m -> S] : m \in 0..n}

\* Vec::contains / slice::contains
Contains(s, x) == \E i \in 1..Len(s) : s[i] = x

(***************************************************************************)
(* configs/yaml_parser.rs: Service.  Only the fields the scheduler reads.  *)
(***************************************************************************)
HealthCheck(kind, port) == [type_entry |-> kind, port |-> port]

ServiceWith(n, deps, hc) ==
    [name |-> n, command |-> <<"r", "u", "n", " ">> \o n,
     health_check |-> hc, dependencies |-> deps]

\* a service that declares no health check
Service(n, deps) == ServiceWith(n, deps, NoneOpt)

\* the dependency lists a service may declare
DepLists == SeqsUpTo(DepNames, MaxDeps)

\* every way to give n services a dependency list each, with at most budget
\* dependency entries in total
RECURSIVE DepAssignments(_, _)
DepAssignments(n, budget) ==
    IF n = 0 THEN {<<>>}
    ELSE UNION { { <<d>> \o rest : rest \in DepAssignments(n - 1, budget - Len(d)) } :
                 d \in {x \in DepLists : Len(x) <= budget} }

\* every sequence of n distinct service names
NameOrders(n) ==
    {p \in [1..n -> SvcNames] : \A i, j \in 1..n : i # j => p[i] # p[j]}

\* every list of n services with distinct names
ListsOfLen(n) ==
    { [i \in 1..n |-> Service(p[i], d[i])] :
        p \in NameOrders(n), d \in DepAssignments(n, MaxEdges) }

(***************************************************************************)
(* The state.                                                              *)
(***************************************************************************)
VARIABLES
    \* ---- resolver (sort_services_by_dependencies / visit_service) ----
    services,       \* the slice handed to the resolver
    k,              \* index of the next element of `for service in services`
    stack,          \* the call stack of visit_service, innermost frame last
    visited,        \* the HashSet of names, kept in insertion order
    sorted,         \* the output Vec<&Service>
    rdone,          \* sort_services_by_dependencies has returned
    run,            \* which call of the resolver on this input this is
    first_sorted    \* what the first call returned

VARIABLES
    \* ---- the inputs of one StartArgs::execute call ----
    args,             \* StartArgs: only, skip, dry_run, background, env
    config_file,      \* <name>/devspin.yaml: exists, parses, content
    \* ---- the position and the locals of execute ----
    pc,               \* where the call stands
    project,          \* Option<ProjectConfig>, Some once loaded
    sorted_services,  \* start_services: the resolved order
    services_to_start,\* start_in_background: the pre-collected services
    idx,              \* index of the current service of the for loop
    dep_idx,          \* wait_for_dependencies: index of the current dependency
    child,            \* Option<Child>: spawned and not yet handed to the registry
    result,           \* Option<Result<()>>: what execute returned
    \* ---- what the call did, as an observer sees it ----
    plan,             \* the service lines dry_run printed
    spawn_log,        \* every command.spawn(): the service and the pid, 0 if it failed
    lock_count,       \* how many times get_global_state() was called
    events,           \* the messages the run printed about waits, health
                      \* checks and failed spawns, the sleeps it made, and
                      \* the spawns and registrations of start_services
    task_pc,          \* devbox_cli: where the task that start_in_background
                      \* handed to tokio::spawn stands; "none" if there is none
    \* ---- the world the health checks are about ----
    ready             \* the services whose port or http target accepts
                      \* connections

VARIABLES
    \* ---- process/state.rs and process/global.rs ----
    processes,        \* ProcessState.processes: pid -> RunningProcess
    lock,             \* the owner of the GLOBAL_STATE mutex
    next_pid,         \* the pid the operating system hands out next
    initial_processes \* the registry as it was when the run began

VARIABLES
    \* ---- tasks that use the global registry concurrently ----
    tpc,              \* per task: idle, call, locked, unlocking, returned
    top,              \* per task: the operation it is performing
    tres,             \* per task: what the operation returned
    tstable,          \* per query: a registration of its service had returned
                      \* when it was issued and no such record was removed since
    returned_adds     \* the registrations [pid, project, service] whose
                      \* add_process call has returned, until a remove_process
                      \* of that pid is executed

VARIABLES
    \* ---- one owner of a ProcessState, and the children it spawned ----
    alive,            \* the pids of the spawned processes that still run
    teardown_log,     \* the kill() and wait() calls of Drop, in order
    dropped,          \* the ProcessState went out of scope
    trail,            \* the last two mutating calls, each with the registry
                      \* as it was before the call and with what it returned
    listing           \* what the last list query returned, until the next
                      \* mutating call

resolverVars == <<services, k, stack, visited, sorted, rdone, run, first_sorted>>

startVars == <<args, config_file, pc, project, sorted_services,
               services_to_start, idx, dep_idx, child, result, plan, spawn_log,
               lock_count, events, task_pc, ready>>

registryVars == <<processes, lock, next_pid, initial_processes>>

taskVars == <<tpc, top, tres, tstable, returned_adds>>

ownerVars == <<alive, teardown_log, dropped, trail, listing>>

otherThanResolver == <<startVars, registryVars, taskVars, ownerVars>>

vars == <<resolverVars, startVars, registryVars, taskVars, ownerVars>>

NumTasks == 2

Tasks == 1..NumTasks

NoOp == [kind |-> "none", project |-> <<>>, service |-> <<>>, pid |-> 0]

\* no task uses the registry
TasksIdle ==
    /\ tpc = [t \in Tasks |-> "idle"]
    /\ top = [t \in Tasks |-> NoOp]
    /\ tres = [t \in Tasks |-> FALSE]
    /\ tstable = [t \in Tasks |-> FALSE]
    /\ returned_adds = {}

\* no list query has been made since the last mutating call
NoListing == [kind |-> "none", project |-> <<>>, result |-> {}]

\* no ProcessState of a single owner is in use
OwnerIdle ==
    /\ alive = {}
    /\ teardown_log = <<>>
    /\ dropped = FALSE
    /\ trail = <<>>
    /\ listing = NoListing

\* the mutex is not held; an owner is <<0>> for execute, <<t>> for task t
Free == <<>>

\* no execute call is in progress
StartIdle ==
    /\ args = [only |-> NoneOpt, skip |-> NoneOpt, dry_run |-> FALSE,
               background |-> FALSE, env |-> NoneOpt]
    /\ config_file = [exists |-> FALSE, parses |-> FALSE, services |-> NoneOpt]
    /\ pc = "idle"
    /\ project = NoneOpt
    /\ sorted_services = <<>>
    /\ services_to_start = <<>>
    /\ idx = 0
    /\ dep_idx = 0
    /\ child = NoneOpt
    /\ result = NoneOpt
    /\ plan = <<>>
    /\ spawn_log = <<>>
    /\ lock_count = 0
    /\ events = <<>>
    /\ task_pc = "none"
    /\ ready = {}

\* Lazy::new(|| Mutex::new(ProcessState::new())): an empty, unlocked registry
RegistryNew ==
    /\ processes = <<>>
    /\ lock = Free
    /\ next_pid = 1
    /\ initial_processes = <<>>

\* no resolver call is being stepped
ResolverIdle ==
    /\ services = <<>>
    /\ k = 1
    /\ stack = <<>>
    /\ visited = <<>>
    /\ sorted = <<>>
    /\ rdone = FALSE
    /\ run = 1
    /\ first_sorted = <<>>

(***************************************************************************)
(* cli/start.rs: the resolver.                                             *)
(***************************************************************************)

\* a find() whose comparison never matches
FindServiceNone(all_services, dep_name) == 0

\* all_services.iter().find(|s| &s.name == dep_name): the index of the first
\* service of that name, 0 for Option::None
FindService(all_services, dep_name) ==
    IF \E j \in 1..Len(all_services) : all_services[j].name = dep_name
    THEN CHOOSE j \in 1..Len(all_services) :
            /\ all_services[j].name = dep_name
            /\ \A h \in 1..(j - 1) : all_services[h].name # dep_name
    ELSE 0

\* visited.contains(service.name.as_str())
VisitedContains(vis, name) == Contains(vis, name)

\* visited.insert(service.name.as_str())
VisitedInsert(vis, name) == IF Contains(vis, name) THEN vis ELSE Append(vis, name)

\* an insert(0, service) in place of the push
SortedPushFront(out, service) == <<service>> \o out

\* sorted.push(service)
SortedPush(out, service) == Append(out, service)

\* the dependencies iterated in no fixed order, as an unordered collection is
DepYieldedAnyOrder(deps, i) == Range(deps)

\* what `for dep_name in &service.dependencies` yields at step i
DepYielded(deps, i) == {deps[i]}

Frame(j) == [svc |-> j, i |-> 0]

Top == stack[Len(stack)]

Pop == SubSeq(stack, 1, Len(stack) - 1)

\* `for service in services { self.visit_service(service, ...) }`
LoopNext ==
    /\ ~rdone
    /\ stack = <<>>
    /\ k <= Len(services)
    /\ stack' = <<Frame(k)>>
    /\ k' = k + 1
    /\ UNCHANGED <<services, visited, sorted, rdone, run, first_sorted>>
    /\ UNCHANGED otherThanResolver

\* the loop is exhausted: `sorted` is returned
LoopEnd ==
    /\ ~rdone
    /\ stack = <<>>
    /\ k > Len(services)
    /\ rdone' = TRUE
    /\ UNCHANGED <<services, k, stack, visited, sorted, run, first_sorted>>
    /\ UNCHANGED otherThanResolver

\* an early return that pushes the service it finds visited
VisitReturnVisitedPush ==
    /\ stack # <<>>
    /\ Top.i = 0
    /\ VisitedContains(visited, services[Top.svc].name)
    /\ sorted' = SortedPush(sorted, services[Top.svc])
    /\ stack' = Pop
    /\ UNCHANGED <<services, k, visited, rdone, run, first_sorted>>
    /\ UNCHANGED otherThanResolver

\* if visited.contains(name) { return; }
VisitReturnVisited ==
    /\ stack # <<>>
    /\ Top.i = 0
    /\ VisitedContains(visited, services[Top.svc].name)
    /\ stack' = Pop
    /\ UNCHANGED <<services, k, visited, sorted, rdone, run, first_sorted>>
    /\ UNCHANGED otherThanResolver

\* visited.insert(name), then the loop over the dependencies begins
VisitMark ==
    /\ stack # <<>>
    /\ Top.i = 0
    /\ ~VisitedContains(visited, services[Top.svc].name)
    /\ visited' = VisitedInsert(visited, services[Top.svc].name)
    /\ stack' = [stack EXCEPT ![Len(stack)].i = 1]
    /\ UNCHANGED <<services, k, sorted, rdone, run, first_sorted>>
    /\ UNCHANGED otherThanResolver

\* a dependency that names a declared service: recurse into it
VisitDepFound ==
    /\ stack # <<>>
    /\ Top.i >= 1
    /\ Top.i <= Len(services[Top.svc].dependencies)
    /\ \E dep_name \in DepYielded(services[Top.svc].dependencies, Top.i) :
          /\ FindService(services, dep_name) # 0
          /\ stack' = Append([stack EXCEPT ![Len(stack)].i = @ + 1],
                             Frame(FindService(services, dep_name)))
    /\ UNCHANGED <<services, k, visited, sorted, rdone, run, first_sorted>>
    /\ UNCHANGED otherThanResolver

\* a dependency that names no declared service: find() is None, skipped
VisitDepUnknown ==
    /\ stack # <<>>
    /\ Top.i >= 1
    /\ Top.i <= Len(services[Top.svc].dependencies)
    /\ \E dep_name \in DepYielded(services[Top.svc].dependencies, Top.i) :
          /\ FindService(services, dep_name) = 0
          /\ stack' = [stack EXCEPT ![Len(stack)].i = @ + 1]
    /\ UNCHANGED <<services, k, visited, sorted, rdone, run, first_sorted>>
    /\ UNCHANGED otherThanResolver

\* sorted.push(service) and return
VisitPush ==
    /\ stack # <<>>
    /\ Top.i > Len(services[Top.svc].dependencies)
    /\ sorted' = SortedPush(sorted, services[Top.svc])
    /\ stack' = Pop
    /\ UNCHANGED <<services, k, visited, rdone, run, first_sorted>>
    /\ UNCHANGED otherThanResolver

(***************************************************************************)
(* The resolver as a function of its input, as start_services calls it.    *)
(* A traversal state is [visited, sorted].                                 *)
(***************************************************************************)
RECURSIVE visit_service(_, _, _)
RECURSIVE VisitDependencies(_, _, _, _)

\* fn visit_service, for the service at index j of all_services
visit_service(j, all_services, st) ==
    IF VisitedContains(st.visited, all_services[j].name)
    THEN st
    ELSE LET marked == [st EXCEPT !.visited = VisitedInsert(@, all_services[j].name)]
             after  == VisitDependencies(all_services[j].dependencies, 1,
                                         all_services, marked)
         IN  [after EXCEPT !.sorted = SortedPush(@, all_services[j])]

\* `for dep_name in &service.dependencies { if let Some(..) = find(..) {..} }`
VisitDependencies(deps, i, all_services, st) ==
    IF i > Len(deps)
    THEN st
    ELSE LET j == FindService(all_services, deps[i])
         IN  VisitDependencies(deps, i + 1, all_services,
                               IF j # 0 THEN visit_service(j, all_services, st)
                               ELSE st)

RECURSIVE SortLoop(_, _, _)
\* `for service in services { self.visit_service(..) }`
SortLoop(all_services, j, st) ==
    IF j > Len(all_services)
    THEN st
    ELSE SortLoop(all_services, j + 1, visit_service(j, all_services, st))

\* a resolver that returns the services as they are declared
sort_services_as_declared(all_services) ==
    all_services

\* fn sort_services_by_dependencies
sort_services_by_dependencies(all_services) ==
    SortLoop(all_services, 1, [visited |-> <<>>, sorted |-> <<>>]).sorted

\* the caller invokes the resolver a second time on the same slice
ResolveAgain ==
    /\ rdone
    /\ run = 1
    /\ first_sorted' = sorted
    /\ run' = 2
    /\ k' = 1
    /\ visited' = <<>>
    /\ sorted' = <<>>
    /\ rdone' = FALSE
    /\ UNCHANGED <<services, stack>>
    /\ UNCHANGED otherThanResolver

ResolverInit ==
    /\ \E n \in 0..MaxServices : services \in ListsOfLen(n)
    /\ k = 1
    /\ stack = <<>>
    /\ visited = <<>>
    /\ sorted = <<>>
    /\ rdone = FALSE
    /\ run = 1
    /\ first_sorted = <<>>
    /\ StartIdle
    /\ RegistryNew
    /\ TasksIdle
    /\ OwnerIdle

ResolverNext ==
    \/ LoopNext
    \/ LoopEnd
    \/ VisitReturnVisited
    \/ VisitMark
    \/ VisitDepFound
    \/ VisitDepUnknown
    \/ VisitPush

\* one call of the resolver on every input
SpecResolver == ResolverInit /\ [][ResolverNext]_vars

\* the resolver is a sequential function: a step that can be taken is taken
FairSpecResolver == SpecResolver /\ WF_vars(ResolverNext)

ResolverTwiceNext ==
    \/ ResolverNext
    \/ ResolveAgain

\* two successive calls of the resolver on every input
SpecResolverTwice == ResolverInit /\ [][ResolverTwiceNext]_vars

(***************************************************************************)
(* process/state.rs: ProcessState.  A Child is [id |-> pid]; the registry   *)
(* maps a pid to RunningProcess = [info, child].  start_time is left out:   *)
(* nothing reads it.                                                        *)
(***************************************************************************)
Running == "Running"

\* a ProcessInfo with the service name and the project name exchanged
ProcessInfoSwapped(pid, service_name, project_name, command) ==
    [pid |-> pid, service_name |-> project_name, project_name |-> service_name,
     command |-> command, status |-> Running]

\* ProcessInfo as add_process builds it
ProcessInfo(pid, service_name, project_name, command) ==
    [pid |-> pid, service_name |-> service_name, project_name |-> project_name,
     command |-> command, status |-> Running]

\* an add_process that keys every record by 0 and not by child.id()
add_process_constant_key(procs, ch, service_name, project_name, command) ==
    [p \in (DOMAIN procs) \cup {0} |->
        IF p = 0
        THEN [info |-> ProcessInfo(ch.id, service_name, project_name, command),
              child |-> ch]
        ELSE procs[p]]

\* an add_process that first drops the records of the same project and service
add_process_dedup(procs, ch, service_name, project_name, command) ==
    [p \in {q \in DOMAIN procs :
               \/ procs[q].info.project_name # project_name
               \/ procs[q].info.service_name # service_name} \cup {ch.id} |->
        IF p = ch.id
        THEN [info |-> ProcessInfo(ch.id, service_name, project_name, command),
              child |-> ch]
        ELSE procs[p]]

\* fn add_process: HashMap::insert replaces what the key held
add_process(procs, ch, service_name, project_name, command) ==
    [p \in (DOMAIN procs) \cup {ch.id} |->
        IF p = ch.id
        THEN [info |-> ProcessInfo(ch.id, service_name, project_name, command),
              child |-> ch]
        ELSE procs[p]]

\* a remove_process that empties the map
remove_process_clear(procs, pid) ==
    <<>>

\* a remove_process that leaves the map as it is
remove_process_keep(procs, pid) ==
    procs

\* fn remove_process: HashMap::remove, nothing happens for an absent key
remove_process(procs, pid) ==
    [p \in (DOMAIN procs) \ {pid} |-> procs[p]]

\* a get_project_processes that does not look at the status
get_project_processes_any_status(procs, project_name) ==
    {procs[p] : p \in {q \in DOMAIN procs :
                          procs[q].info.project_name = project_name}}

\* fn get_project_processes: the records of the project whose status is
\* Running, in the order of the HashMap, which is not specified
get_project_processes(procs, project_name) ==
    {procs[p] : p \in {q \in DOMAIN procs :
                          /\ procs[q].info.project_name = project_name
                          /\ procs[q].info.status = Running}}

\* fn get_all_processes
get_all_processes(procs) ==
    {procs[p] : p \in DOMAIN procs}

\* fn process_count
process_count(procs) == Cardinality(DOMAIN procs)

\* an is_service_running that does not compare the project name
is_service_running_any_project(procs, project_name, service_name) ==
    \E p \in DOMAIN procs :
        /\ procs[p].info.service_name = service_name
        /\ procs[p].info.status = Running

\* fn is_service_running
is_service_running(procs, project_name, service_name) ==
    \E p \in DOMAIN procs :
        /\ procs[p].info.project_name = project_name
        /\ procs[p].info.service_name = service_name
        /\ procs[p].info.status = Running

(***************************************************************************)
(* cli/start.rs: the argument checks and the filter.                       *)
(***************************************************************************)
Ok == [ok |-> TRUE, kind |-> "Ok", msg |-> ""]

Err(kind, msg) == [ok |-> FALSE, kind |-> kind, msg |-> msg]

IsWhitespace(c) == c \in {" ", "\t", "\n", "\r"}

RECURSIVE TrimStart(_)
TrimStart(str) ==
    IF str # <<>> /\ IsWhitespace(Head(str)) THEN TrimStart(Tail(str)) ELSE str

RECURSIVE TrimEnd(_)
TrimEnd(str) ==
    IF str # <<>> /\ IsWhitespace(str[Len(str)])
    THEN TrimEnd(SubSeq(str, 1, Len(str) - 1))
    ELSE str

\* str::trim
Trim(str) == TrimEnd(TrimStart(str))

\* an is_empty() with no trim() before it
IsEmptyUntrimmed(str) == Len(str) = 0

\* service.trim().is_empty()
TrimIsEmpty(str) == Len(Trim(str)) = 0

\* validate_args without the check for conflicting filters
validate_args_no_conflict(a) ==
    IF IsSome(a.only) /\ \E i \in 1..Len(Unwrap(a.only)) : TrimIsEmpty(Unwrap(a.only)[i])
    THEN Err("ConfigError", "empty name in --only")
    ELSE IF IsSome(a.skip) /\ \E i \in 1..Len(Unwrap(a.skip)) : TrimIsEmpty(Unwrap(a.skip)[i])
    THEN Err("ConfigError", "empty name in --skip")
    ELSE Ok

\* fn validate_args
validate_args(a) ==
    IF IsSome(a.only) /\ IsSome(a.skip)
    THEN Err("ConfigError", "both --only and --skip")
    ELSE IF IsSome(a.only) /\ \E i \in 1..Len(Unwrap(a.only)) : TrimIsEmpty(Unwrap(a.only)[i])
    THEN Err("ConfigError", "empty name in --only")
    ELSE IF IsSome(a.skip) /\ \E i \in 1..Len(Unwrap(a.skip)) : TrimIsEmpty(Unwrap(a.skip)[i])
    THEN Err("ConfigError", "empty name in --skip")
    ELSE Ok

\* should_start_service that looks at the skip list alone
should_start_service_skip_only(a, service) ==
    IF IsSome(a.skip) /\ Contains(Unwrap(a.skip), service.name)
    THEN FALSE
    ELSE TRUE

\* fn should_start_service
should_start_service(a, service) ==
    IF IsSome(a.only) /\ ~Contains(Unwrap(a.only), service.name)
    THEN FALSE
    ELSE IF IsSome(a.skip) /\ Contains(Unwrap(a.skip), service.name)
    THEN FALSE
    ELSE TRUE

(***************************************************************************)
(* cli/start.rs: StartArgs::execute, one action per step of the call.      *)
(***************************************************************************)
\* a line the run prints, or a sleep it makes, about a service
Event(ev, service, dep) == [ev |-> ev, service |-> service, dep |-> dep]

\* the value of `name:` in the configuration file
ProjectName == <<"d", "e", "m", "o">>

\* the task that runs execute, as owner of the mutex
Executor == <<0>>

\* a match arm that compares with "tcp" where the code compares with "http"
HttpArmTcp == <<"t", "c", "p">>

\* the arm "http" of the match in wait_for_health_check
Http == <<"h", "t", "t", "p">>

Port == <<"p", "o", "r", "t">>

\* FileRead(#[from] std::io::Error): what `?` makes of an io::Error in a
\* function that returns Result<_, ToolError>
FromIoError(msg) == Err("FileRead", msg)

\* execute returns r; the MutexGuard, if taken, is dropped
Return(r) ==
    /\ result' = Some(r)
    /\ pc' = "done"

\* self.validate_args()?
ExecValidate ==
    /\ pc = "validate"
    /\ IF validate_args(args).ok
       THEN pc' = "check_path" /\ UNCHANGED result
       ELSE Return(validate_args(args))
    /\ UNCHANGED <<args, config_file, project, sorted_services,
                   services_to_start, idx, dep_idx, child, plan, spawn_log,
                   lock_count>>
    /\ UNCHANGED <<resolverVars, taskVars, task_pc, ownerVars, events, ready, registryVars>>

\* if !Path::new(&default_path).exists() { return Err(ConfigError) }
ExecCheckPath ==
    /\ pc = "check_path"
    /\ IF config_file.exists
       THEN pc' = "load" /\ UNCHANGED result
       ELSE Return(Err("ConfigError", "project not found"))
    /\ UNCHANGED <<args, config_file, project, sorted_services,
                   services_to_start, idx, dep_idx, child, plan, spawn_log,
                   lock_count>>
    /\ UNCHANGED <<resolverVars, taskVars, task_pc, ownerVars, events, ready, registryVars>>

\* self.load_project(&default_path).await?  A file that cannot be read or
\* parsed comes back as Box<dyn Error>, which `?` turns into GenericError.
ExecLoadProject ==
    /\ pc = "load"
    /\ IF config_file.parses
       THEN /\ project' = Some([name |-> ProjectName,
                                services |-> config_file.services])
            /\ pc' = "mode"
            /\ UNCHANGED result
       ELSE /\ Return(Err("GenericError", "cannot load project"))
            /\ UNCHANGED project
    /\ UNCHANGED <<args, config_file, sorted_services,
                   services_to_start, idx, dep_idx, child, plan, spawn_log,
                   lock_count>>
    /\ UNCHANGED <<resolverVars, taskVars, task_pc, ownerVars, events, ready, registryVars>>

\* the SERVICES lines of fn dry_run: one per service, in the order of
\* project.services, with the mark for should_start_service
DryRunPlan(a, proj) ==
    IF IsSome(proj.services)
    THEN [i \in 1..Len(Unwrap(proj.services)) |->
            [name |-> Unwrap(proj.services)[i].name,
             start |-> should_start_service(a, Unwrap(proj.services)[i])]]
    ELSE <<>>

\* an execute that does not look at the flag
DryRunFlagIgnored(a) == FALSE

\* the condition of `if self.dry_run`
DryRunFlag(a) == a.dry_run

\* if self.dry_run { return self.dry_run(&project); }
ExecDryRun ==
    /\ pc = "mode"
    /\ DryRunFlag(args)
    /\ plan' = DryRunPlan(args, Unwrap(project))
    /\ Return(Ok)
    /\ UNCHANGED <<args, config_file, project, sorted_services,
                   services_to_start, idx, dep_idx, child, spawn_log, lock_count>>
    /\ UNCHANGED <<resolverVars, taskVars, task_pc, ownerVars, events, ready, registryVars>>

\* if let Some(env) = &self.env { self.load_env_file(env).await?; }, where
\* dotenvy::from_filename loads the file or fails, and then the branch on
\* self.background
ExecLoadEnv ==
    /\ pc = "mode"
    /\ ~DryRunFlag(args)
    /\ \E loaded \in (IF IsSome(args.env) THEN BOOLEAN ELSE {TRUE}) :
          IF loaded
          THEN /\ pc' = IF args.background THEN "bg_collect" ELSE "fg_lock"
               /\ UNCHANGED result
          ELSE Return(Err("ConfigError", "failed to load env file"))
    /\ UNCHANGED <<args, config_file, project, sorted_services,
                   services_to_start, idx, dep_idx, child, plan, spawn_log,
                   lock_count>>
    /\ UNCHANGED <<resolverVars, taskVars, task_pc, ownerVars, events, ready, registryVars>>

(***************************************************************************)
(* Foreground: execute takes the global registry and runs start_services   *)
(* with the guard in hand.                                                 *)
(***************************************************************************)
\* let mut process_state = get_global_state();  Mutex::lock blocks while the
\* mutex is held
FgLock ==
    /\ pc = "fg_lock"
    /\ lock = Free
    /\ lock' = Executor
    /\ lock_count' = lock_count + 1
    /\ pc' = "fg_sort"
    /\ UNCHANGED <<args, config_file, project, sorted_services,
                   services_to_start, idx, dep_idx, child, result, plan,
                   spawn_log>>
    /\ UNCHANGED <<resolverVars, taskVars, task_pc, ownerVars, events, ready, processes, next_pid, initial_processes>>

\* if let Some(services) = &project.services { let sorted_services = ... }
FgSort ==
    /\ pc = "fg_sort"
    /\ IF IsSome(Unwrap(project).services)
       THEN /\ sorted_services' =
                  sort_services_by_dependencies(Unwrap(Unwrap(project).services))
            /\ idx' = 1
            /\ pc' = "fg_loop"
       ELSE /\ pc' = "fg_end"
            /\ UNCHANGED <<sorted_services, idx>>
    /\ UNCHANGED <<args, config_file, project, services_to_start,
                   dep_idx, child, result, plan, spawn_log, lock_count>>
    /\ UNCHANGED <<resolverVars, taskVars, task_pc, ownerVars, events, ready, registryVars>>

\* for service in sorted_services { if self.should_start_service(service) {
FgLoop ==
    /\ pc = "fg_loop"
    /\ IF idx > Len(sorted_services)
       THEN pc' = "fg_end" /\ UNCHANGED <<idx, dep_idx>>
       ELSE IF should_start_service(args, sorted_services[idx])
       THEN pc' = "fg_wait" /\ dep_idx' = 1 /\ UNCHANGED idx
       ELSE idx' = idx + 1 /\ UNCHANGED <<pc, dep_idx>>
    /\ UNCHANGED <<args, config_file, project, sorted_services,
                   services_to_start, child, result, plan, spawn_log, lock_count>>
    /\ UNCHANGED <<resolverVars, taskVars, task_pc, ownerVars, events, ready, registryVars>>

\* wait_for_dependencies: for dep_name in &service.dependencies {
\*   if !process_state.is_service_running(project_name, dep_name) { sleep }
FgWait ==
    /\ pc = "fg_wait"
    /\ IF dep_idx > Len(sorted_services[idx].dependencies)
       THEN pc' = "fg_spawn" /\ UNCHANGED dep_idx
       ELSE IF ~is_service_running(processes, Unwrap(project).name,
                                   sorted_services[idx].dependencies[dep_idx])
       THEN pc' = "fg_dep_sleep" /\ UNCHANGED dep_idx
       ELSE dep_idx' = dep_idx + 1 /\ UNCHANGED pc
    /\ events' =
          IF /\ dep_idx <= Len(sorted_services[idx].dependencies)
             /\ ~is_service_running(processes, Unwrap(project).name,
                                    sorted_services[idx].dependencies[dep_idx])
          THEN Append(events, Event("waiting_for_dependency",
                                    sorted_services[idx].name,
                                    sorted_services[idx].dependencies[dep_idx]))
          ELSE events
    /\ UNCHANGED <<args, config_file, project, sorted_services,
                   services_to_start, idx, child, result, plan, spawn_log,
                   lock_count>>
    /\ UNCHANGED <<resolverVars, taskVars, task_pc, ownerVars, ready, registryVars>>

\* tokio::time::sleep(Duration::from_secs(1)).await is over
FgDepSleep ==
    /\ pc = "fg_dep_sleep"
    /\ dep_idx' = dep_idx + 1
    /\ pc' = "fg_wait"
    /\ events' = Append(events, Event("dependency_sleep", sorted_services[idx].name,
                                      sorted_services[idx].dependencies[dep_idx]))
    /\ UNCHANGED <<args, config_file, project, sorted_services,
                   services_to_start, idx, child, result, plan, spawn_log,
                   lock_count>>
    /\ UNCHANGED <<resolverVars, taskVars, task_pc, ownerVars, ready, registryVars>>

\* a start_services that runs the health check of a service before it
\* registers the child
FgSpawnProbeFirst ==
    /\ pc = "fg_spawn"
    /\ \E spawned \in BOOLEAN :
          IF spawned
          THEN /\ child' = Some([id |-> next_pid])
               /\ next_pid' = next_pid + 1
               /\ spawn_log' = Append(spawn_log,
                     [service |-> sorted_services[idx].name, pid |-> next_pid])
               /\ alive' = alive \cup {next_pid}
               /\ events' = Append(events,
                     Event("spawned", sorted_services[idx].name, <<>>))
               /\ pc' = "fg_health"
               /\ UNCHANGED <<result, lock>>
          ELSE /\ spawn_log' = Append(spawn_log,
                     [service |-> sorted_services[idx].name, pid |-> 0])
               /\ Return(FromIoError("spawn failed"))
               /\ lock' = Free
               /\ UNCHANGED <<child, next_pid, alive, events>>
    /\ UNCHANGED <<args, config_file, project, sorted_services,
                   services_to_start, idx, dep_idx, plan, lock_count>>
    /\ UNCHANGED <<resolverVars, taskVars, task_pc, teardown_log, dropped, trail,
                   listing, ready, processes, initial_processes>>

\* let child = self.spawn_service_command(..).await?;  command.spawn() either
\* gives a child with a fresh pid or fails with an io::Error, which `?` turns
\* into ToolError::FileRead; execute then returns and drops the guard
FgSpawn ==
    /\ pc = "fg_spawn"
    /\ \E spawned \in BOOLEAN :
          IF spawned
          THEN /\ child' = Some([id |-> next_pid])
               /\ next_pid' = next_pid + 1
               /\ spawn_log' = Append(spawn_log,
                     [service |-> sorted_services[idx].name, pid |-> next_pid])
               /\ alive' = alive \cup {next_pid}
               /\ events' = Append(events,
                     Event("spawned", sorted_services[idx].name, <<>>))
               /\ pc' = "fg_register"
               /\ UNCHANGED <<result, lock>>
          ELSE /\ spawn_log' = Append(spawn_log,
                     [service |-> sorted_services[idx].name, pid |-> 0])
               /\ Return(FromIoError("spawn failed"))
               /\ lock' = Free
               /\ UNCHANGED <<child, next_pid, alive, events>>
    /\ UNCHANGED <<args, config_file, project, sorted_services,
                   services_to_start, idx, dep_idx, plan, lock_count>>
    /\ UNCHANGED <<resolverVars, taskVars, task_pc, teardown_log, dropped, trail,
                   listing, ready, processes, initial_processes>>

\* process_state.add_process(child, &service.name, &project.name, &service.command)?
FgRegister ==
    /\ pc = "fg_register"
    /\ processes' = add_process(processes, Unwrap(child), sorted_services[idx].name,
                                Unwrap(project).name, sorted_services[idx].command)
    /\ child' = NoneOpt
    /\ events' = Append(events, Event("registered", sorted_services[idx].name, <<>>))
    /\ pc' = "fg_health"
    /\ UNCHANGED <<args, config_file, project, sorted_services,
                   services_to_start, idx, dep_idx, result, plan, spawn_log,
                   lock_count>>
    /\ UNCHANGED <<resolverVars, taskVars, task_pc, ownerVars, ready, lock, next_pid,
                   initial_processes>>

\* a wait_for_health_check that returns an error for a kind it does not know
FgHealthRejectsUnknown ==
    /\ pc = "fg_health"
    /\ LET hc == sorted_services[idx].health_check
           name == sorted_services[idx].name IN
       IF IsSome(hc) /\ Unwrap(hc).type_entry = Http
       THEN pc' = "fg_http_sleep" /\ UNCHANGED <<idx, events, result, lock>>
       ELSE IF IsSome(hc) /\ Unwrap(hc).type_entry = Port /\ IsSome(Unwrap(hc).port)
       THEN pc' = "fg_port_sleep" /\ UNCHANGED <<idx, events, result, lock>>
       ELSE IF IsSome(hc) /\ Unwrap(hc).type_entry # Port
       THEN /\ Return(Err("GenericError", "unrecognized health check"))
            /\ lock' = Free
            /\ events' = Append(events, Event("unrecognized_health_check", name, <<>>))
            /\ UNCHANGED idx
       ELSE /\ pc' = "fg_loop"
            /\ idx' = idx + 1
            /\ events' =
                  IF ~IsSome(hc) THEN events
                  ELSE Append(events, Event("health_check_passed", name, <<>>))
            /\ UNCHANGED <<result, lock>>
    /\ UNCHANGED <<args, config_file, project, sorted_services,
                   services_to_start, dep_idx, child, plan, spawn_log,
                   lock_count>>
    /\ UNCHANGED <<resolverVars, taskVars, task_pc, ownerVars, ready, processes,
                   next_pid, initial_processes>>

\* if let Some(health_check) = &service.health_check { wait_for_health_check }
\* up to the sleep of the http or the port check, if there is one; a port
\* check without a port and a check of another kind return Ok at once
FgHealth ==
    /\ pc = "fg_health"
    /\ LET hc == sorted_services[idx].health_check
           name == sorted_services[idx].name IN
       IF IsSome(hc) /\ Unwrap(hc).type_entry = Http
       THEN pc' = "fg_http_sleep" /\ UNCHANGED <<idx, events>>
       ELSE IF IsSome(hc) /\ Unwrap(hc).type_entry = Port /\ IsSome(Unwrap(hc).port)
       THEN pc' = "fg_port_sleep" /\ UNCHANGED <<idx, events>>
       ELSE /\ pc' = "fg_loop"
            /\ idx' = idx + 1
            /\ events' =
                  IF ~IsSome(hc) THEN events
                  ELSE IF Unwrap(hc).type_entry = Port
                  THEN Append(events, Event("health_check_passed", name, <<>>))
                  ELSE events \o
                       << Event("unrecognized_health_check", name, <<>>),
                          Event("health_check_passed", name, <<>>) >>
    /\ UNCHANGED <<args, config_file, project, sorted_services,
                   services_to_start, dep_idx, child, result, plan, spawn_log,
                   lock_count>>
    /\ UNCHANGED <<resolverVars, taskVars, task_pc, ownerVars, ready, registryVars>>

\* wait_for_http_health_check: sleep(2 s) is over, Ok(())
FgHttpSleep ==
    /\ pc = "fg_http_sleep"
    /\ pc' = "fg_loop"
    /\ idx' = idx + 1
    /\ events' = events \o
          << Event("health_sleep", sorted_services[idx].name, <<>>),
             Event("health_check_passed", sorted_services[idx].name, <<>>) >>
    /\ UNCHANGED <<args, config_file, project, sorted_services,
                   services_to_start, dep_idx, child, result, plan, spawn_log,
                   lock_count>>
    /\ UNCHANGED <<resolverVars, taskVars, task_pc, ownerVars, ready, registryVars>>

\* wait_for_port_health_check: sleep(1 s) is over, Ok(())
FgPortSleep ==
    /\ pc = "fg_port_sleep"
    /\ pc' = "fg_loop"
    /\ idx' = idx + 1
    /\ events' = events \o
          << Event("health_sleep", sorted_services[idx].name, <<>>),
             Event("health_check_passed", sorted_services[idx].name, <<>>) >>
    /\ UNCHANGED <<args, config_file, project, sorted_services,
                   services_to_start, dep_idx, child, result, plan, spawn_log,
                   lock_count>>
    /\ UNCHANGED <<resolverVars, taskVars, task_pc, ownerVars, ready, registryVars>>

\* start_services returns Ok(()), execute returns it and drops the guard
FgEnd ==
    /\ pc = "fg_end"
    /\ Return(Ok)
    /\ lock' = Free
    /\ UNCHANGED <<args, config_file, project, sorted_services,
                   services_to_start, idx, dep_idx, child, plan, spawn_log,
                   lock_count>>
    /\ UNCHANGED <<resolverVars, taskVars, task_pc, ownerVars, events, ready, processes, next_pid, initial_processes>>

(***************************************************************************)
(* Background: start_in_background, awaited by execute.                    *)
(***************************************************************************)
\* a start_in_background that collects the services without the filter
BgCollectUnfiltered ==
    /\ pc = "bg_collect"
    /\ services_to_start' =
          IF IsSome(Unwrap(project).services)
          THEN Unwrap(Unwrap(project).services)
          ELSE <<>>
    /\ idx' = 1
    /\ pc' = "bg_loop"
    /\ UNCHANGED <<args, config_file, project, sorted_services,
                   dep_idx, child, result, plan, spawn_log, lock_count>>
    /\ UNCHANGED <<resolverVars, taskVars, task_pc, ownerVars, events, ready,
                   registryVars>>

\* services.iter().filter(|s| self.should_start_service(s)).cloned().collect()
BgCollect ==
    /\ pc = "bg_collect"
    /\ services_to_start' =
          IF IsSome(Unwrap(project).services)
          THEN SelectSeq(Unwrap(Unwrap(project).services),
                         LAMBDA sv : should_start_service(args, sv))
          ELSE <<>>
    /\ idx' = 1
    /\ pc' = "bg_loop"
    /\ UNCHANGED <<args, config_file, project, sorted_services,
                   dep_idx, child, result, plan, spawn_log, lock_count>>
    /\ UNCHANGED <<resolverVars, taskVars, task_pc, ownerVars, events, ready, registryVars>>

\* for service in services_to_start { match self.spawn_service_command(..)
\* an Err is printed and the loop goes on to the delay
BgSpawn ==
    /\ pc = "bg_loop"
    /\ idx <= Len(services_to_start)
    /\ \E spawned \in BOOLEAN :
          IF spawned
          THEN /\ child' = Some([id |-> next_pid])
               /\ next_pid' = next_pid + 1
               /\ spawn_log' = Append(spawn_log,
                     [service |-> services_to_start[idx].name, pid |-> next_pid])
               /\ alive' = alive \cup {next_pid}
               /\ pc' = "bg_lock"
               /\ UNCHANGED events
          ELSE /\ spawn_log' = Append(spawn_log,
                     [service |-> services_to_start[idx].name, pid |-> 0])
               /\ events' = Append(events,
                     Event("failed_to_start", services_to_start[idx].name, <<>>))
               /\ pc' = "bg_delay"
               /\ UNCHANGED <<child, next_pid, alive>>
    /\ UNCHANGED <<args, config_file, project, sorted_services,
                   services_to_start, idx, dep_idx, result, plan, lock_count>>
    /\ UNCHANGED <<resolverVars, taskVars, task_pc, teardown_log, dropped, trail, listing, ready, processes, lock, initial_processes>>

\* let mut process_state = get_global_state();
BgLock ==
    /\ pc = "bg_lock"
    /\ lock = Free
    /\ lock' = Executor
    /\ lock_count' = lock_count + 1
    /\ pc' = "bg_register"
    /\ UNCHANGED <<args, config_file, project, sorted_services,
                   services_to_start, idx, dep_idx, child, result, plan,
                   spawn_log>>
    /\ UNCHANGED <<resolverVars, taskVars, task_pc, ownerVars, events, ready, processes, next_pid, initial_processes>>

\* a start_in_background whose guard outlives the match arm
BgRegisterKeepsGuard ==
    /\ pc = "bg_register"
    /\ processes' = add_process(processes, Unwrap(child), services_to_start[idx].name,
                                Unwrap(project).name, services_to_start[idx].command)
    /\ child' = NoneOpt
    /\ pc' = "bg_delay"
    /\ UNCHANGED <<args, config_file, project, sorted_services,
                   services_to_start, idx, dep_idx, result, plan, spawn_log,
                   lock_count>>
    /\ UNCHANGED <<resolverVars, taskVars, task_pc, ownerVars, events, ready, lock,
                   next_pid, initial_processes>>

\* process_state.add_process(..); the guard drops at the end of the match arm
BgRegister ==
    /\ pc = "bg_register"
    /\ processes' = add_process(processes, Unwrap(child), services_to_start[idx].name,
                                Unwrap(project).name, services_to_start[idx].command)
    /\ child' = NoneOpt
    /\ lock' = Free
    /\ pc' = "bg_delay"
    /\ UNCHANGED <<args, config_file, project, sorted_services,
                   services_to_start, idx, dep_idx, result, plan, spawn_log,
                   lock_count>>
    /\ UNCHANGED <<resolverVars, taskVars, task_pc, ownerVars, events, ready, next_pid, initial_processes>>

\* tokio::time::sleep(Duration::from_millis(300)).await is over
BgDelay ==
    /\ pc = "bg_delay"
    /\ idx' = idx + 1
    /\ pc' = "bg_loop"
    /\ UNCHANGED <<args, config_file, project, sorted_services,
                   services_to_start, dep_idx, child, result, plan, spawn_log,
                   lock_count>>
    /\ UNCHANGED <<resolverVars, taskVars, task_pc, ownerVars, events, ready, registryVars>>

\* the loop is exhausted: start_in_background returns Ok(())
BgEnd ==
    /\ pc = "bg_loop"
    /\ idx > Len(services_to_start)
    /\ Return(Ok)
    /\ UNCHANGED <<args, config_file, project, sorted_services,
                   services_to_start, idx, dep_idx, child, plan, spawn_log,
                   lock_count>>
    /\ UNCHANGED <<resolverVars, taskVars, task_pc, ownerVars, events, ready, registryVars>>

\* main returns what cli.execute() returned and the program ends.
\* GLOBAL_STATE is a static: no destructor runs for a static, so Drop for
\* ProcessState is not called on the registry that start used
MainReturns ==
    /\ pc = "done"
    /\ pc' = "exited"
    /\ UNCHANGED <<args, config_file, project, sorted_services,
                   services_to_start, idx, dep_idx, child, result, plan,
                   spawn_log, lock_count>>
    /\ UNCHANGED <<resolverVars, taskVars, task_pc, ownerVars, events, ready, registryVars>>

(***************************************************************************)
(* The inputs of the start orchestrator.                                   *)
(***************************************************************************)
MaxFilterLen == 1

\* the entries a filter list may hold: two service names, the empty string
\* and a blank
FilterEntries == {<<"A">>, <<"B">>, <<>>, <<" ">>}

FilterOptions ==
    {NoneOpt} \cup {Some(l) : l \in SeqsUpTo(FilterEntries, MaxFilterLen)}

EnvPath == <<".", "e", "n", "v">>

PortCheck == HealthCheck(Port, Some(8080))

PortCheckNoPort == HealthCheck(Port, NoneOpt)

HttpCheck == HealthCheck(Http, NoneOpt)

OtherCheck == HealthCheck(<<"t", "c", "p">>, NoneOpt)

StartA == ServiceWith(<<"A">>, <<>>, Some(PortCheck))

StartB == ServiceWith(<<"B">>, << <<"A">> >>, Some(HttpCheck))

StartC == ServiceWith(<<"C">>, << <<"B">> >>, NoneOpt)

\* the chain A, B -> A, C -> B in its six declaration orders
ChainOrders ==
    {p \in [1..3 -> {StartA, StartB, StartC}] :
        \A i, j \in 1..3 : i # j => p[i] # p[j]}

\* two services that depend on each other, one of them on an undeclared name
CycleProject ==
    << ServiceWith(<<"A">>, << <<"B">> >>, Some(OtherCheck)),
       ServiceWith(<<"B">>, << <<"A">>, UnknownName >>, Some(PortCheckNoPort)) >>

\* ProjectConfig.services of the projects the model starts
StartProjects == {NoneOpt} \cup {Some(p) : p \in ChainOrders \cup {CycleProject}}

ConfigFiles ==
    {[exists |-> FALSE, parses |-> FALSE, services |-> NoneOpt],
     [exists |-> TRUE, parses |-> FALSE, services |-> NoneOpt]}
    \cup {[exists |-> TRUE, parses |-> TRUE, services |-> sv] : sv \in StartProjects}

\* the targets of the health checks: none of them ever accepts a connection,
\* or those of A and B do from the beginning
ReadySets == {{}, {<<"A">>, <<"B">>}}

\* the registry when execute is entered: new, or holding the record that an
\* earlier start of service A in this process left
PriorRecord ==
    add_process(<<>>, [id |-> 1], <<"A">>, ProjectName, <<"r", "u", "n", " ", "A">>)

StartInit ==
    /\ args \in [only : FilterOptions, skip : FilterOptions, dry_run : BOOLEAN,
                 background : BOOLEAN, env : {NoneOpt, Some(EnvPath)}]
    /\ config_file \in ConfigFiles
    /\ pc = "validate"
    /\ project = NoneOpt
    /\ sorted_services = <<>>
    /\ services_to_start = <<>>
    /\ idx = 0
    /\ dep_idx = 0
    /\ child = NoneOpt
    /\ result = NoneOpt
    /\ plan = <<>>
    /\ spawn_log = <<>>
    /\ lock_count = 0
    /\ events = <<>>
    /\ task_pc = "none"
    /\ ready \in ReadySets
    /\ processes \in {<<>>, PriorRecord}
    /\ initial_processes = processes
    /\ next_pid = process_count(processes) + 1
    /\ lock = Free
    /\ ResolverIdle
    /\ TasksIdle
    /\ OwnerIdle

StartNext ==
    \/ ExecValidate
    \/ ExecCheckPath
    \/ ExecLoadProject
    \/ ExecDryRun
    \/ ExecLoadEnv
    \/ FgLock
    \/ FgSort
    \/ FgLoop
    \/ FgWait
    \/ FgDepSleep
    \/ FgSpawn
    \/ FgRegister
    \/ FgHealth
    \/ FgHttpSleep
    \/ FgPortSleep
    \/ FgEnd
    \/ BgCollect
    \/ BgSpawn
    \/ BgLock
    \/ BgRegister
    \/ BgDelay
    \/ BgEnd
    \/ MainReturns

\* one call of StartArgs::execute on every input
SpecStart == StartInit /\ [][StartNext]_vars

(***************************************************************************)
(* devbox_cli/src/cli/start.rs: start_in_background.  The sequence is       *)
(* start_services, run by a task that tokio::spawn detaches; the caller     *)
(* returns Ok without waiting for it.  The ProcessState that the task owns  *)
(* comes from devbox_cli's process module: what is_service_running answers  *)
(* is any of the two values, and add_process is a call whose result the     *)
(* code discards.                                                           *)
(***************************************************************************)
\* what the devbox actions leave alone
devboxRest ==
    <<resolverVars, taskVars, args, config_file, project, services_to_start,
      plan, lock_count, ready, processes, lock, initial_processes,
      teardown_log, dropped, trail, listing>>

\* tokio::spawn(async move { .. }): the task exists from here on
DbxTokioSpawn ==
    /\ pc = "dbx_background"
    /\ task_pc = "none"
    /\ task_pc' = "t_sort"
    /\ pc' = "dbx_return"
    /\ UNCHANGED <<result, sorted_services, idx, dep_idx, child, spawn_log,
                   next_pid, alive, events>>
    /\ UNCHANGED devboxRest

\* println!(..); Ok(())
DbxReturn ==
    /\ pc = "dbx_return"
    /\ Return(Ok)
    /\ UNCHANGED <<task_pc, sorted_services, idx, dep_idx, child, spawn_log,
                   next_pid, alive, events>>
    /\ UNCHANGED devboxRest

\* the task enters start_services: the resolved order, if there are services
TaskSort ==
    /\ task_pc = "t_sort"
    /\ IF IsSome(Unwrap(project).services)
       THEN /\ sorted_services' =
                  sort_services_by_dependencies(Unwrap(Unwrap(project).services))
            /\ idx' = 1
            /\ task_pc' = "t_loop"
       ELSE /\ task_pc' = "t_end"
            /\ UNCHANGED <<sorted_services, idx>>
    /\ UNCHANGED <<pc, result, dep_idx, child, spawn_log, next_pid, alive, events>>
    /\ UNCHANGED devboxRest

\* for service in sorted_services { if self.should_start_service(service) {
TaskLoop ==
    /\ task_pc = "t_loop"
    /\ IF idx > Len(sorted_services)
       THEN task_pc' = "t_end" /\ UNCHANGED <<idx, dep_idx>>
       ELSE IF should_start_service(args, sorted_services[idx])
       THEN task_pc' = "t_wait" /\ dep_idx' = 1 /\ UNCHANGED idx
       ELSE idx' = idx + 1 /\ UNCHANGED <<task_pc, dep_idx>>
    /\ UNCHANGED <<pc, result, sorted_services, child, spawn_log, next_pid,
                   alive, events>>
    /\ UNCHANGED devboxRest

\* wait_for_dependencies: one dependency, running or not
TaskWait ==
    /\ task_pc = "t_wait"
    /\ IF dep_idx > Len(sorted_services[idx].dependencies)
       THEN task_pc' = "t_spawn" /\ UNCHANGED <<dep_idx, events>>
       ELSE \E running \in BOOLEAN :
              IF running
              THEN dep_idx' = dep_idx + 1 /\ UNCHANGED <<task_pc, events>>
              ELSE /\ task_pc' = "t_dep_sleep"
                   /\ events' = Append(events,
                         Event("waiting_for_dependency", sorted_services[idx].name,
                               sorted_services[idx].dependencies[dep_idx]))
                   /\ UNCHANGED dep_idx
    /\ UNCHANGED <<pc, result, sorted_services, idx, child, spawn_log, next_pid,
                   alive>>
    /\ UNCHANGED devboxRest

\* tokio::time::sleep(Duration::from_secs(1)).await is over
TaskDepSleep ==
    /\ task_pc = "t_dep_sleep"
    /\ events' = Append(events, Event("dependency_sleep", sorted_services[idx].name,
                                      sorted_services[idx].dependencies[dep_idx]))
    /\ dep_idx' = dep_idx + 1
    /\ task_pc' = "t_wait"
    /\ UNCHANGED <<pc, result, sorted_services, idx, child, spawn_log, next_pid,
                   alive>>
    /\ UNCHANGED devboxRest

\* let mut child = self.spawn_service_command(service, &env_vars).await?;
\* command.spawn() fails: map_err makes a ProcessError, `?` returns it from
\* start_services, and the task prints "Background service error" and ends
TaskSpawn ==
    /\ task_pc = "t_spawn"
    /\ \E spawned \in BOOLEAN :
          IF spawned
          THEN /\ child' = Some([id |-> next_pid])
               /\ next_pid' = next_pid + 1
               /\ alive' = alive \cup {next_pid}
               /\ spawn_log' = Append(spawn_log,
                     [service |-> sorted_services[idx].name, pid |-> next_pid])
               /\ task_pc' = "t_register"
               /\ UNCHANGED events
          ELSE /\ spawn_log' = Append(spawn_log,
                     [service |-> sorted_services[idx].name, pid |-> 0])
               /\ events' = Append(events,
                     Event("background_service_error", sorted_services[idx].name,
                           <<>>))
               /\ task_pc' = "t_ended"
               /\ UNCHANGED <<child, next_pid, alive>>
    /\ UNCHANGED <<pc, result, sorted_services, idx, dep_idx>>
    /\ UNCHANGED devboxRest

\* let _ = process_state.add_process(&mut child, ..); the child stays a local
\* of the loop body
TaskRegister ==
    /\ task_pc = "t_register"
    /\ task_pc' = "t_health"
    /\ UNCHANGED <<pc, result, sorted_services, idx, dep_idx, child, spawn_log,
                   next_pid, alive, events>>
    /\ UNCHANGED devboxRest

\* the health check, as in devspin_cli; `if !self.background` keeps the task
\* from spawning a monitor, and the child is dropped at the end of the body
TaskHealth ==
    /\ task_pc = "t_health"
    /\ LET hc == sorted_services[idx].health_check
           name == sorted_services[idx].name IN
       IF IsSome(hc) /\ Unwrap(hc).type_entry = Http
       THEN task_pc' = "t_http_sleep" /\ UNCHANGED <<idx, events, child>>
       ELSE IF IsSome(hc) /\ Unwrap(hc).type_entry = Port /\ IsSome(Unwrap(hc).port)
       THEN task_pc' = "t_port_sleep" /\ UNCHANGED <<idx, events, child>>
       ELSE /\ task_pc' = "t_loop"
            /\ idx' = idx + 1
            /\ child' = NoneOpt
            /\ events' =
                  IF ~IsSome(hc) THEN events
                  ELSE IF Unwrap(hc).type_entry = Port
                  THEN Append(events, Event("health_check_passed", name, <<>>))
                  ELSE events \o
                       << Event("unrecognized_health_check", name, <<>>),
                          Event("health_check_passed", name, <<>>) >>
    /\ UNCHANGED <<pc, result, sorted_services, dep_idx, spawn_log, next_pid, alive>>
    /\ UNCHANGED devboxRest

\* the sleep of the http or of the port check is over, Ok(())
TaskHealthSleep ==
    /\ task_pc \in {"t_http_sleep", "t_port_sleep"}
    /\ task_pc' = "t_loop"
    /\ idx' = idx + 1
    /\ child' = NoneOpt
    /\ events' = events \o
          << Event("health_sleep", sorted_services[idx].name, <<>>),
             Event("health_check_passed", sorted_services[idx].name, <<>>) >>
    /\ UNCHANGED <<pc, result, sorted_services, dep_idx, spawn_log, next_pid, alive>>
    /\ UNCHANGED devboxRest

\* start_services returns Ok(()): "Background services running", the task ends
TaskEnd ==
    /\ task_pc = "t_end"
    /\ task_pc' = "t_ended"
    /\ UNCHANGED <<pc, result, sorted_services, idx, dep_idx, child, spawn_log,
                   next_pid, alive, events>>
    /\ UNCHANGED devboxRest

\* the arguments that pass validate_args, with background set and no dry run
DevboxArgs ==
    {a \in [only : FilterOptions, skip : FilterOptions, dry_run : {FALSE},
            background : {TRUE}, env : {NoneOpt}] : validate_args(a).ok}

\* execute has loaded the project and calls start_in_background
DevboxInit ==
    /\ args \in DevboxArgs
    /\ \E sv \in StartProjects :
          /\ config_file = [exists |-> TRUE, parses |-> TRUE, services |-> sv]
          /\ project = Some([name |-> ProjectName, services |-> sv])
    /\ pc = "dbx_background"
    /\ task_pc = "none"
    /\ sorted_services = <<>>
    /\ services_to_start = <<>>
    /\ idx = 0
    /\ dep_idx = 0
    /\ child = NoneOpt
    /\ result = NoneOpt
    /\ plan = <<>>
    /\ spawn_log = <<>>
    /\ lock_count = 0
    /\ events = <<>>
    /\ ready = {}
    /\ RegistryNew
    /\ ResolverIdle
    /\ TasksIdle
    /\ OwnerIdle

DevboxNext ==
    \/ DbxTokioSpawn
    \/ DbxReturn
    \/ TaskSort
    \/ TaskLoop
    \/ TaskWait
    \/ TaskDepSleep
    \/ TaskSpawn
    \/ TaskRegister
    \/ TaskHealth
    \/ TaskHealthSleep
    \/ TaskEnd

\* devbox_cli's background start on every project and every valid filter
SpecDevboxBackground == DevboxInit /\ [][DevboxNext]_vars

(***************************************************************************)
(* process/global.rs: tasks that share GLOBAL_STATE.  A task spawns a      *)
(* child and registers it, asks whether a service is running, or removes   *)
(* a record; each goes through get_global_state(), which locks the mutex,  *)
(* and the guard is dropped when the statement ends.                       *)
(***************************************************************************)
MaxPids == 2

OtherProject == <<"o", "t", "h", "e", "r">>

RegProjects == {ProjectName, OtherProject}

RegServices == {<<"A">>, <<"B">>}

AddOp(p, sv, pid) == [kind |-> "add", project |-> p, service |-> sv, pid |-> pid]

QueryOp(p, sv) == [kind |-> "is_running", project |-> p, service |-> sv, pid |-> 0]

RemoveOp(pid) == [kind |-> "remove", project |-> <<>>, service |-> <<>>, pid |-> pid]

\* some record of the service was registered by a call that has returned
RegistrationReturned(p, sv) ==
    \E r \in returned_adds : r.project = p /\ r.service = sv

\* the task spawns a child, which gets the next pid, and is about to register it
TaskCallAdd(t) ==
    /\ tpc[t] = "idle"
    /\ next_pid <= MaxPids
    /\ \E p \in RegProjects, sv \in RegServices :
          top' = [top EXCEPT ![t] = AddOp(p, sv, next_pid)]
    /\ next_pid' = next_pid + 1
    /\ tpc' = [tpc EXCEPT ![t] = "call"]
    /\ UNCHANGED <<processes, lock, initial_processes, tres, tstable, returned_adds>>
    /\ UNCHANGED <<resolverVars, startVars, ownerVars>>

\* the task issues is_service_running(p, sv)
TaskCallQuery(t) ==
    /\ tpc[t] = "idle"
    /\ \E p \in RegProjects, sv \in RegServices :
          /\ top' = [top EXCEPT ![t] = QueryOp(p, sv)]
          /\ tstable' = [tstable EXCEPT ![t] = RegistrationReturned(p, sv)]
    /\ tpc' = [tpc EXCEPT ![t] = "call"]
    /\ UNCHANGED <<registryVars, tres, returned_adds>>
    /\ UNCHANGED <<resolverVars, startVars, ownerVars>>

\* the task issues remove_process(pid), for a pid that may be absent
TaskCallRemove(t) ==
    /\ tpc[t] = "idle"
    /\ \E pid \in 1..MaxPids : top' = [top EXCEPT ![t] = RemoveOp(pid)]
    /\ tpc' = [tpc EXCEPT ![t] = "call"]
    /\ UNCHANGED <<registryVars, tres, tstable, returned_adds>>
    /\ UNCHANGED <<resolverVars, startVars, ownerVars>>

\* get_global_state(): GLOBAL_STATE.lock().unwrap()
get_global_state(t) ==
    /\ tpc[t] = "call"
    /\ lock = Free
    /\ lock' = <<t>>
    /\ tpc' = [tpc EXCEPT ![t] = "locked"]
    /\ UNCHANGED <<processes, next_pid, initial_processes, top, tres, tstable,
                   returned_adds>>
    /\ UNCHANGED <<resolverVars, startVars, ownerVars>>

\* guard.add_process(child, service, project, command)
TaskAddProcess(t) ==
    /\ tpc[t] = "locked"
    /\ top[t].kind = "add"
    /\ processes' = add_process(processes, [id |-> top[t].pid], top[t].service,
                                top[t].project, <<"r", "u", "n", " ">> \o top[t].service)
    /\ tres' = [tres EXCEPT ![t] = TRUE]
    /\ tpc' = [tpc EXCEPT ![t] = "unlocking"]
    /\ UNCHANGED <<lock, next_pid, initial_processes, top, tstable, returned_adds>>
    /\ UNCHANGED <<resolverVars, startVars, ownerVars>>

\* guard.is_service_running(project, service)
TaskIsServiceRunning(t) ==
    /\ tpc[t] = "locked"
    /\ top[t].kind = "is_running"
    /\ tres' = [tres EXCEPT ![t] =
                  is_service_running(processes, top[t].project, top[t].service)]
    /\ tpc' = [tpc EXCEPT ![t] = "unlocking"]
    /\ UNCHANGED <<registryVars, top, tstable, returned_adds>>
    /\ UNCHANGED <<resolverVars, startVars, ownerVars>>

\* guard.remove_process(pid); a query in flight for the removed record's
\* service no longer counts on it
TaskRemoveProcess(t) ==
    /\ tpc[t] = "locked"
    /\ top[t].kind = "remove"
    /\ processes' = remove_process(processes, top[t].pid)
    /\ tstable' = [u \in Tasks |->
                     IF \E r \in returned_adds :
                           /\ r.pid = top[t].pid
                           /\ top[u].kind = "is_running"
                           /\ top[u].project = r.project
                           /\ top[u].service = r.service
                     THEN FALSE
                     ELSE tstable[u]]
    /\ returned_adds' = {r \in returned_adds : r.pid # top[t].pid}
    /\ tres' = [tres EXCEPT ![t] = TRUE]
    /\ tpc' = [tpc EXCEPT ![t] = "unlocking"]
    /\ UNCHANGED <<lock, next_pid, initial_processes, top>>
    /\ UNCHANGED <<resolverVars, startVars, ownerVars>>

\* the MutexGuard is dropped and the call returns
TaskUnlock(t) ==
    /\ tpc[t] = "unlocking"
    /\ lock' = Free
    /\ returned_adds' = IF top[t].kind = "add"
                        THEN returned_adds \cup {[pid |-> top[t].pid,
                                                  project |-> top[t].project,
                                                  service |-> top[t].service]}
                        ELSE returned_adds
    /\ tpc' = [tpc EXCEPT ![t] = "returned"]
    /\ UNCHANGED <<processes, next_pid, initial_processes, top, tres, tstable>>
    /\ UNCHANGED <<resolverVars, startVars, ownerVars>>

\* the task has used the result and goes on
TaskDone(t) ==
    /\ tpc[t] = "returned"
    /\ tpc' = [tpc EXCEPT ![t] = "idle"]
    /\ top' = [top EXCEPT ![t] = NoOp]
    /\ tres' = [tres EXCEPT ![t] = FALSE]
    /\ tstable' = [tstable EXCEPT ![t] = FALSE]
    /\ UNCHANGED <<registryVars, returned_adds>>
    /\ UNCHANGED <<resolverVars, startVars, ownerVars>>

RegistryInit ==
    /\ RegistryNew
    /\ TasksIdle
    /\ OwnerIdle
    /\ StartIdle
    /\ ResolverIdle

RegistryNext ==
    \E t \in Tasks :
        \/ TaskCallAdd(t)
        \/ TaskCallQuery(t)
        \/ TaskCallRemove(t)
        \/ get_global_state(t)
        \/ TaskAddProcess(t)
        \/ TaskIsServiceRunning(t)
        \/ TaskRemoveProcess(t)
        \/ TaskUnlock(t)
        \/ TaskDone(t)

\* tasks calling the registry through the global mutex, in every interleaving
SpecRegistry == RegistryInit /\ [][RegistryNext]_vars

(***************************************************************************)
(* process/state.rs: one owner of a ProcessState, as the tests of the       *)
(* registry use it: it spawns children and registers them, removes          *)
(* records, lists, and lets the ProcessState go out of scope.  A child may  *)
(* end by itself at any time.                                               *)
(***************************************************************************)
\* the command line of a service
CommandOf(sv) == <<"r", "u", "n", " ">> \o sv

\* the trail keeps the last two mutating calls
Remember(e) ==
    IF Len(trail) = 2 THEN <<trail[2], e>> ELSE Append(trail, e)

AddCall(pid, p, sv, pre) ==
    [kind |-> "add", pid |-> pid, project |-> p, service |-> sv,
     pre |-> pre, ret |-> Ok]

RemoveCall(pid, pre) ==
    [kind |-> "remove", pid |-> pid, project |-> <<>>, service |-> <<>>,
     pre |-> pre, ret |-> Ok]

DropCall(pre) ==
    [kind |-> "drop", pid |-> 0, project |-> <<>>, service |-> <<>>,
     pre |-> pre, ret |-> Ok]

\* Command::new(..).spawn() gives a child with a fresh pid, and
\* add_process(child, service, project, command) moves it into the registry
OwnerSpawnAdd ==
    /\ ~dropped
    /\ next_pid <= MaxPids
    /\ \E p \in RegProjects, sv \in RegServices :
          /\ processes' = add_process(processes, [id |-> next_pid], sv, p,
                                      CommandOf(sv))
          /\ trail' = Remember(AddCall(next_pid, p, sv, processes))
    /\ alive' = alive \cup {next_pid}
    /\ next_pid' = next_pid + 1
    /\ listing' = NoListing
    /\ UNCHANGED <<lock, initial_processes, teardown_log, dropped>>
    /\ UNCHANGED <<resolverVars, startVars, taskVars>>

\* remove_process(pid), for a pid that may be absent.  The RunningProcess that
\* HashMap::remove returns is dropped; dropping a std::process::Child neither
\* kills the process nor waits for it
OwnerRemove ==
    /\ ~dropped
    /\ \E pid \in 1..MaxPids :
          /\ processes' = remove_process(processes, pid)
          /\ trail' = Remember(RemoveCall(pid, processes))
    /\ listing' = NoListing
    /\ UNCHANGED <<lock, next_pid, initial_processes, alive, teardown_log, dropped>>
    /\ UNCHANGED <<resolverVars, startVars, taskVars>>

\* get_all_processes()
OwnerListAll ==
    /\ ~dropped
    /\ listing' = [kind |-> "all", project |-> <<>>,
                   result |-> get_all_processes(processes)]
    /\ UNCHANGED <<registryVars, alive, teardown_log, dropped, trail>>
    /\ UNCHANGED <<resolverVars, startVars, taskVars>>

\* a get_project_processes that takes the records it returns out of the map
OwnerListProjectDrains ==
    /\ ~dropped
    /\ \E p \in RegProjects :
          /\ listing' = [kind |-> "project", project |-> p,
                         result |-> get_project_processes(processes, p)]
          /\ processes' =
                [q \in {r \in DOMAIN processes :
                           processes[r] \notin get_project_processes(processes, p)}
                    |-> processes[q]]
    /\ UNCHANGED <<lock, next_pid, initial_processes, alive, teardown_log,
                   dropped, trail>>
    /\ UNCHANGED <<resolverVars, startVars, taskVars>>

\* get_project_processes(project)
OwnerListProject ==
    /\ ~dropped
    /\ \E p \in RegProjects :
          listing' = [kind |-> "project", project |-> p,
                      result |-> get_project_processes(processes, p)]
    /\ UNCHANGED <<registryVars, alive, teardown_log, dropped, trail>>
    /\ UNCHANGED <<resolverVars, startVars, taskVars>>

\* a spawned process ends by itself; nothing in the registry changes
ChildExits ==
    /\ \E pid \in alive : alive' = alive \ {pid}
    /\ UNCHANGED <<registryVars, teardown_log, dropped, trail, listing>>
    /\ UNCHANGED <<resolverVars, startVars, taskVars>>

\* the pids of a set in one of its orders
Orders(S) ==
    {o \in [1..Cardinality(S) -> S] :
        \A i, j \in 1..Cardinality(S) : i # j => o[i] # o[j]}

\* for (_, mut running_process) in processes.into_iter() {
\*     let _ = child.kill(); let _ = child.wait(); }
KillAndWait(order) ==
    [i \in 1..(2 * Len(order)) |->
        IF i % 2 = 1
        THEN [call |-> "kill", pid |-> order[(i + 1) \div 2]]
        ELSE [call |-> "wait", pid |-> order[i \div 2]]]

\* impl Drop for ProcessState: nothing if the map is empty, else the map is
\* taken and every child is killed and waited for, in the order of the
\* HashMap; what kill and wait return is discarded
OwnerDrop ==
    /\ ~dropped
    /\ dropped' = TRUE
    /\ IF processes # <<>>
       THEN /\ \E order \in Orders(DOMAIN processes) :
                  teardown_log' = teardown_log \o KillAndWait(order)
            /\ processes' = <<>>
            /\ alive' = alive \ {processes[q].child.id : q \in DOMAIN processes}
       ELSE UNCHANGED <<teardown_log, processes, alive>>
    /\ trail' = Remember(DropCall(processes))
    /\ listing' = NoListing
    /\ UNCHANGED <<lock, next_pid, initial_processes>>
    /\ UNCHANGED <<resolverVars, startVars, taskVars>>

\* let mut process_state = ProcessState::new();
OwnerInit ==
    /\ RegistryNew
    /\ OwnerIdle
    /\ TasksIdle
    /\ StartIdle
    /\ ResolverIdle

OwnerNext ==
    \/ OwnerSpawnAdd
    \/ OwnerRemove
    \/ OwnerListAll
    \/ OwnerListProject
    \/ ChildExits
    \/ OwnerDrop

\* every sequence of calls of one owner on a new ProcessState
SpecOwner == OwnerInit /\ [][OwnerNext]_vars

(***************************************************************************)
(* The owner of a ProcessState who also asks is_service_running and        *)
(* process_count.  Both take &self and return a value.                     *)
(***************************************************************************)
\* is_service_running(project, service)
OwnerIsServiceRunning ==
    /\ ~dropped
    /\ \E p \in RegProjects, sv \in RegServices :
          listing' = [kind |-> "is_service_running", project |-> p,
                      result |-> {<<sv, is_service_running(processes, p, sv)>>}]
    /\ UNCHANGED <<registryVars, alive, teardown_log, dropped, trail>>
    /\ UNCHANGED <<resolverVars, startVars, taskVars>>

\* process_count()
OwnerProcessCount ==
    /\ ~dropped
    /\ listing' = [kind |-> "process_count", project |-> <<>>,
                   result |-> {process_count(processes)}]
    /\ UNCHANGED <<registryVars, alive, teardown_log, dropped, trail>>
    /\ UNCHANGED <<resolverVars, startVars, taskVars>>

OwnerQueriesNext ==
    \/ OwnerNext
    \/ OwnerIsServiceRunning
    \/ OwnerProcessCount

\* every sequence of calls and queries of one owner on a new ProcessState
SpecOwnerQueries == OwnerInit /\ [][OwnerQueriesNext]_vars

(***************************************************************************)
(* StartArgs::execute while the children it spawned may end.  The call is  *)
(* sequential: a step it can take is taken.                                *)
(***************************************************************************)
StartLiveNext ==
    \/ StartNext
    \/ ChildExits

SpecStartLive == StartInit /\ [][StartLiveNext]_vars /\ WF_vars(StartNext)

(***************************************************************************)
(* StartArgs::execute in both modes on one input.  execute is called with  *)
(* background unset, and when it has returned it is called again, in the   *)
(* same process, with the same arguments but background set.  What the     *)
(* first call did is kept: spawn_log and the registry go on from where     *)
(* they were, and initial_processes is the registry between the two calls. *)
(***************************************************************************)
ExecuteAgainInBackground ==
    /\ pc = "done"
    /\ ~args.background
    /\ args' = [args EXCEPT !.background = TRUE]
    /\ initial_processes' = processes
    /\ pc' = "validate"
    /\ project' = NoneOpt
    /\ sorted_services' = <<>>
    /\ services_to_start' = <<>>
    /\ idx' = 0
    /\ dep_idx' = 0
    /\ result' = NoneOpt
    /\ UNCHANGED <<config_file, child, plan, spawn_log, lock_count, events,
                   task_pc, ready>>
    /\ UNCHANGED <<resolverVars, taskVars, ownerVars, processes, lock, next_pid>>

\* the first call: background unset, no env file, a new registry
BothModesInit ==
    /\ StartInit
    /\ ~args.background
    /\ args.env = NoneOpt
    /\ processes = <<>>
    /\ ready = {}

BothModesNext ==
    \/ StartNext
    \/ ExecuteAgainInBackground

\* a foreground call and then a background call on every input
SpecBothModes == BothModesInit /\ [][BothModesNext]_vars

(***************************************************************************)
(* process/state.rs: the list queries on any registry.  ProcessStatus has  *)
(* the values Running, Stopped and Error(String), and the fields of a      *)
(* record are public: the queries are applied to every registry of up to   *)
(* MaxPids records, whatever the status of each.                            *)
(***************************************************************************)
\* ProcessStatus: Running, Stopped, Error(String)
Statuses == {Running, "Stopped", "Error"}

\* a RunningProcess of any project, service and status
RecordsOfPid(pid) ==
    {[info |-> [pid |-> pid, service_name |-> sv, project_name |-> p,
                command |-> CommandOf(sv), status |-> st],
      child |-> [id |-> pid]] :
        p \in RegProjects, sv \in RegServices, st \in Statuses}

\* the registries that hold records for a set of pids
RegistriesOn(S) ==
    {f \in [S -> UNION {RecordsOfPid(pid) : pid \in S}] :
        \A pid \in S : f[pid] \in RecordsOfPid(pid)}

Registries == UNION {RegistriesOn(S) : S \in SUBSET (1..MaxPids)}

ListingInit ==
    /\ processes \in Registries
    /\ initial_processes = processes
    /\ lock = Free
    /\ next_pid = MaxPids + 1
    /\ OwnerIdle
    /\ TasksIdle
    /\ StartIdle
    /\ ResolverIdle

ListingNext ==
    \/ OwnerListAll
    \/ OwnerListProject

\* get_all_processes and get_project_processes on every registry
SpecListing == ListingInit /\ [][ListingNext]_vars

(***************************************************************************)
(* process/global.rs across commands.  GLOBAL_STATE is a static of the     *)
(* process that runs the command: nothing writes the registry to a file or *)
(* hands it to another process.  A command that is invoked after start has *)
(* exited runs in a new process, where the first get_global_state() runs   *)
(* Lazy::new and finds a new ProcessState.  The children of the first      *)
(* process are not killed by its exit.                                     *)
(***************************************************************************)
\* the start command has exited and a later command begins in a new process:
\* Lazy::new(|| Mutex::new(ProcessState::new()))
LaterInvocation ==
    /\ pc = "exited"
    /\ pc' = "later"
    /\ processes' = <<>>
    /\ lock' = Free
    /\ UNCHANGED <<args, config_file, project, sorted_services,
                   services_to_start, idx, dep_idx, child, result, plan,
                   spawn_log, lock_count, events, task_pc, ready>>
    /\ UNCHANGED <<resolverVars, taskVars, ownerVars, next_pid, initial_processes>>

\* the later command asks for the records of the project:
\* get_global_state().get_project_processes(project_name)
LaterListProject ==
    /\ pc = "later"
    /\ pc' = "later_done"
    /\ listing' = [kind |-> "project", project |-> ProjectName,
                   result |-> get_project_processes(processes, ProjectName)]
    /\ UNCHANGED <<args, config_file, project, sorted_services,
                   services_to_start, idx, dep_idx, child, result, plan,
                   spawn_log, lock_count, events, task_pc, ready>>
    /\ UNCHANGED <<resolverVars, taskVars, registryVars, alive, teardown_log,
                   dropped, trail>>

StartThenQueryNext ==
    \/ StartNext
    \/ LaterInvocation
    \/ LaterListProject

\* one start command, then a command that lists the project
SpecStartThenQuery == StartInit /\ [][StartThenQueryNext]_vars

(***************************************************************************)
(* Properties of the resolver.                                             *)
(***************************************************************************)
DeclaredNames == {services[i].name : i \in 1..Len(services)}

\* the declared services that the service named a lists as dependencies
DepsOf(a) ==
    UNION {Range(services[i].dependencies) \cap DeclaredNames :
             i \in {h \in 1..Len(services) : services[h].name = a}}

RECURSIVE ReachWithin(_, _)
\* the services reachable from the set S in at most n dependency steps
ReachWithin(S, n) ==
    IF n = 0 THEN S
    ELSE ReachWithin(S \cup UNION {DepsOf(a) : a \in S}, n - 1)

\* the services that a depends on, directly or not
DependsOn(a) == ReachWithin(DepsOf(a), Len(services))

Acyclic == \A a \in DeclaredNames : a \notin DependsOn(a)

\* position of the service named a in the output, 0 if absent
SortedPos(a) ==
    IF \E i \in 1..Len(sorted) : sorted[i].name = a
    THEN CHOOSE i \in 1..Len(sorted) : sorted[i].name = a
    ELSE 0

\* rank of a in the order in which the traversal reached (marked) the services
ReachedPos(a) ==
    IF \E i \in 1..Len(visited) : visited[i] = a
    THEN CHOOSE i \in 1..Len(visited) : visited[i] = a
    ELSE 0

\* the stepwise resolver and the function agree (consistency of the model)
ResolverMatchesFunction ==
    rdone => sorted = sort_services_by_dependencies(services)

\* C1: on an acyclic graph with unique names, every service comes strictly
\* after each of its dependencies that names a declared service.
C1_DependenciesFirst ==
    (rdone /\ Acyclic) =>
        \A a \in DeclaredNames : \A d \in DepsOf(a) :
            /\ SortedPos(d) > 0
            /\ SortedPos(d) < SortedPos(a)

\* an acyclic input that declares a service before one of its dependencies
C1_Witness ==
    /\ rdone
    /\ Acyclic
    /\ \E i, j \in 1..Len(services) :
          /\ i < j
          /\ services[j].name \in DepsOf(services[i].name)
          /\ SortedPos(services[j].name) < SortedPos(services[i].name)

ChainA == Service(<<"A">>, <<>>)
ChainB == Service(<<"B">>, << <<"A">> >>)
ChainC == Service(<<"C">>, << <<"B">> >>)

IsChain == Len(services) = 3 /\ Range(services) = {ChainA, ChainB, ChainC}

\* C2: the chain A, B -> A, C -> B resolves to [A, B, C] in every declaration
\* order.
C2_ChainOrder ==
    (rdone /\ IsChain) => sorted = <<ChainA, ChainB, ChainC>>

\* the chain declared in the order [C, B, A] has been resolved
C2_Witness ==
    /\ rdone
    /\ services = <<ChainC, ChainB, ChainA>>
    /\ sorted = <<ChainA, ChainB, ChainC>>

\* the output holds every declared service exactly once
IsTotalOrder ==
    /\ Len(sorted) = Len(services)
    /\ \A i \in 1..Len(services) :
          Cardinality({j \in 1..Len(sorted) : sorted[j] = services[i]}) = 1

\* C3: the resolver terminates on every service list, cyclic ones included,
\* and what it returns holds each declared service exactly once.
C3_TerminatesWithTotalOrder ==
    /\ [](rdone => IsTotalOrder)
    /\ <>rdone

\* the resolver has returned on an input with a cycle of two or more services
\* and on one with a self-dependency
C3_Witness ==
    /\ rdone
    /\ IsTotalOrder
    /\ \E a \in DeclaredNames : a \in DepsOf(a) \/ DependsOn(a) \ {a} # {}
    /\ ~Acyclic

\* the sets of two or more services that lie on one dependency cycle: the
\* services of the set can be arranged so that each depends on the next and
\* the last on the first
IsCycle(C) ==
    /\ Cardinality(C) >= 2
    /\ \E p \in [1..Cardinality(C) -> C] :
          /\ \A i, j \in 1..Cardinality(C) : i # j => p[i] # p[j]
          /\ \A i \in 1..Cardinality(C) :
                p[(i % Cardinality(C)) + 1] \in DepsOf(p[i])

Cycles == {C \in SUBSET DeclaredNames : IsCycle(C)}

\* the service of C that the traversal reached first
FirstReached(C) ==
    CHOOSE a \in C : \A b \in C : ReachedPos(a) <= ReachedPos(b)

\* C4 as stated: the first service of a cycle that the traversal reaches is
\* placed before the other services of the cycle.
C4_FirstReachedStartsFirst ==
    rdone =>
        \A C \in Cycles : \A b \in C \ {FirstReached(C)} :
            SortedPos(FirstReached(C)) < SortedPos(b)

\* C4 amended: the first service of a cycle that the traversal reaches is
\* placed after every other service of the cycle (it starts last of them).
C4_FirstReachedStartsLast ==
    rdone =>
        \A C \in Cycles : \A b \in C \ {FirstReached(C)} :
            /\ SortedPos(b) > 0
            /\ SortedPos(b) < SortedPos(FirstReached(C))

\* a resolved input with a cycle of three services
C4_Witness ==
    /\ rdone
    /\ \E C \in Cycles : Cardinality(C) = 3

\* C5: a second run of the resolver on the same list returns what the first
\* run returned.
C5_Deterministic ==
    (rdone /\ run = 2) => sorted = first_sorted

\* both runs have returned on a list where a service has two dependencies
C5_Witness ==
    /\ rdone
    /\ run = 2
    /\ Len(first_sorted) = 3
    /\ \E i \in 1..Len(services) :
          Cardinality(Range(services[i].dependencies) \cap DeclaredNames) = 2

(***************************************************************************)
(* Properties of StartArgs::execute.                                       *)
(***************************************************************************)
\* execute has returned
Done == pc \in {"done", "exited"}

BothFilters == IsSome(args.only) /\ IsSome(args.skip)

IsConfigError(r) == ~r.ok /\ r.kind = "ConfigError"

\* nothing was spawned and the registry was neither locked nor changed
Untouched ==
    /\ spawn_log = <<>>
    /\ child = NoneOpt
    /\ lock_count = 0
    /\ lock = Free
    /\ processes = initial_processes

C7_FilteredDryRunSucceeds ==
    (Done /\ args.dry_run /\ BothFilters /\ config_file.exists /\ config_file.parses)
        => Unwrap(result).ok

\* the names of the declared services
Declared ==
    IF config_file.parses /\ IsSome(config_file.services)
    THEN {Unwrap(config_file.services)[i].name :
            i \in 1..Len(Unwrap(config_file.services))}
    ELSE {}

\* the declared services that the filter lets through
InOnly(n) == Contains(Unwrap(args.only), n)

InSkip(n) == Contains(Unwrap(args.skip), n)

Selected ==
    IF IsSome(args.only) THEN {n \in Declared : InOnly(n)}
    ELSE IF IsSome(args.skip) THEN {n \in Declared : ~InSkip(n)}
    ELSE Declared

\* the services for which command.spawn() was called, and those it started
Attempted == {spawn_log[i].service : i \in 1..Len(spawn_log)}

Spawned == {spawn_log[i].service : i \in {j \in 1..Len(spawn_log) : spawn_log[j].pid # 0}}

NoSpawnFailed == \A i \in 1..Len(spawn_log) : spawn_log[i].pid # 0

OneFilter == IsSome(args.only) # IsSome(args.skip)

\* the call got as far as starting services and has returned
StartReturned ==
    /\ Done
    /\ ~args.dry_run
    /\ project # NoneOpt
    /\ ~IsConfigError(Unwrap(result))

BlankEntry ==
    \/ IsSome(args.only) /\ \E i \in 1..Len(Unwrap(args.only)) :
          \A j \in 1..Len(Unwrap(args.only)[i]) : IsWhitespace(Unwrap(args.only)[i][j])
    \/ IsSome(args.skip) /\ \E i \in 1..Len(Unwrap(args.skip)) :
          \A j \in 1..Len(Unwrap(args.skip)[i]) : IsWhitespace(Unwrap(args.skip)[i][j])

MissingFile == ~config_file.exists

\* C9: an empty or blank filter entry and a missing project file make
\* execute return a configuration error, as does an env file that fails to
\* load; whenever execute returns a configuration error nothing has been
\* spawned and the registry is as it was.
C9_ConfigErrorBeforeSpawn ==
    /\ (BlankEntry \/ MissingFile) =>
          /\ Untouched
          /\ Done => IsConfigError(Unwrap(result))
    /\ (Done /\ IsConfigError(Unwrap(result))) => Untouched
    /\ (Done /\ Unwrap(result).msg = "failed to load env file") =>
          IsConfigError(Unwrap(result))

\* a run that holds a record from before has failed on its env file
C9_Witness ==
    /\ Done
    /\ Unwrap(result) = Err("ConfigError", "failed to load env file")
    /\ initial_processes # <<>>
    /\ processes = initial_processes
    /\ Declared # {}

\* execute stands at an awaited call: the spawn of a service, the sleep of a
\* dependency wait, the sleep of a health check, the delay between two
\* background services
AtAwait ==
    pc \in {"fg_spawn", "fg_dep_sleep", "fg_http_sleep", "fg_port_sleep",
            "bg_loop", "bg_delay"}

BackgroundLockIsBrief ==
    (args.background /\ AtAwait) => lock = Free

\* C18: with background = true, start returns to its caller right after
\* creating the detached orchestration task, before any service has been
\* waited on, spawned or health-probed.
C18_BackgroundReturnsBeforeSpawn ==
    (args.background /\ Done) => spawn_log = <<>>

\* the services of the loaded project
ProjectServices ==
    IF IsSome(project) /\ IsSome(Unwrap(project).services)
    THEN Unwrap(Unwrap(project).services)
    ELSE <<>>

\* the declared service of a name
ServiceNamed(n) ==
    ProjectServices[CHOOSE i \in 1..Len(ProjectServices) :
                        ProjectServices[i].name = n]

\* the dependencies of a service that name a declared service
ResolvableDeps(sv) == Range(sv.dependencies) \cap Declared

\* the dependency graph of the project has no cycle: the services can be
\* ranked so that every resolvable dependency ranks below its dependant
ProjectAcyclic ==
    \E rank \in [Declared -> 1..Len(ProjectServices)] :
        \A i \in 1..Len(ProjectServices) :
            \A d \in ResolvableDeps(ProjectServices[i]) :
                rank[d] < rank[ProjectServices[i].name]

NoFilter == args.only = NoneOpt /\ args.skip = NoneOpt

\* foreground start_services stands at the spawn of a service, or has just
\* spawned it and not yet registered it
AtSpawnOf(sv) ==
    /\ pc \in {"fg_spawn", "fg_register"}
    /\ sorted_services[idx] = sv

\* C19: in foreground mode with no filter and an acyclic dependency graph,
\* at the moment a service is spawned each of its resolvable dependencies
\* has a Running record in the registry for the same project.
C19_DependenciesRunningAtSpawn ==
    (~args.background /\ NoFilter /\ ProjectAcyclic) =>
        \A i \in 1..Len(ProjectServices) :
            AtSpawnOf(ProjectServices[i]) =>
                \A d \in ResolvableDeps(ProjectServices[i]) :
                    \E q \in DOMAIN processes \ DOMAIN initial_processes :
                        /\ processes[q].info.project_name = Unwrap(project).name
                        /\ processes[q].info.service_name = d
                        /\ processes[q].info.status = Running

\* C, declared first in the chain, has just been spawned on a registry that
\* was empty when the run began
C19_Witness ==
    /\ ~args.background
    /\ NoFilter
    /\ ProjectAcyclic
    /\ initial_processes = <<>>
    /\ pc = "fg_register"
    /\ ProjectServices[1].name = <<"C">>
    /\ sorted_services[idx].name = <<"C">>

\* the filter lets a declared name through
PassesFilter(n) == n \in Selected

\* C20: in background mode, for an acyclic graph, a service is spawned only
\* after every one of its resolvable, filter-passing dependencies has been
\* spawned and registered.
C20_BackgroundFollowsResolvedOrder ==
    (args.background /\ ProjectAcyclic) =>
        \A i \in 1..Len(spawn_log) :
            spawn_log[i].pid # 0 =>
                \A d \in ResolvableDeps(ServiceNamed(spawn_log[i].service)) :
                    PassesFilter(d) =>
                        \E j \in 1..(i - 1) :
                            /\ spawn_log[j].service = d
                            /\ spawn_log[j].pid \in DOMAIN processes

\* how many events of a kind the run logged for a service
EventCount(ev, name) ==
    Cardinality({i \in 1..Len(events) :
                    events[i].ev = ev /\ events[i].service = name})

\* the run logged an event of a kind for a service and a dependency
Logged(ev, name, dep) ==
    \E i \in 1..Len(events) : events[i] = Event(ev, name, dep)

\* foreground start_services is through wait_for_dependencies for the
\* current service and stands at its spawn
WaitOver == pc = "fg_spawn"

\* wait_for_dependencies by itself: at most one sleep for each dependency
DependencyWaitIsBounded ==
    \A i \in 1..Len(sorted_services) :
        EventCount("dependency_sleep", sorted_services[i].name)
            <= Len(sorted_services[i].dependencies)

\* C21: the dependency wait before a spawn is bounded, and when it is over
\* a timeout has been reported for every dependency that is still not
\* Running; the service is then spawned anyway.
C21_DependencyTimeoutReported ==
    /\ DependencyWaitIsBounded
    /\ WaitOver =>
          \A j \in 1..Len(sorted_services[idx].dependencies) :
              LET dep == sorted_services[idx].dependencies[j] IN
              ~is_service_running(processes, Unwrap(project).name, dep) =>
                  Logged("dependency_timeout", sorted_services[idx].name, dep)

\* a service without the dependencies that name no declared service
WithoutUnknown(sv) ==
    [sv EXCEPT !.dependencies = SelectSeq(sv.dependencies,
                                          LAMBDA d : d \in Declared)]

\* the names of a list of services, in order
NamesOf(list) == [i \in 1..Len(list) |-> list[i].name]

\* start_services has resolved the order
Resolved ==
    pc \in {"fg_loop", "fg_wait", "fg_dep_sleep", "fg_spawn", "fg_register",
            "fg_health", "fg_http_sleep", "fg_port_sleep", "fg_end"}

\* the resolver alone: a dependency on an undeclared name does not change
\* the order
UnknownIgnoredByResolver ==
    Resolved =>
        NamesOf(sorted_services) =
            NamesOf(sort_services_by_dependencies(
                        [i \in 1..Len(ProjectServices) |->
                            WithoutUnknown(ProjectServices[i])]))

\* C22: a dependency name that matches no declared service is treated as
\* already satisfied: it does not change the resolver's output, raises no
\* error and causes no dependency wait before the depending service is
\* spawned.
C22_UnknownDependencyIgnored ==
    /\ UnknownIgnoredByResolver
    /\ \A i \in 1..Len(events) :
          events[i].ev \in {"waiting_for_dependency", "dependency_sleep"}
              => events[i].dep \in Declared

\* the kind of the health check of a declared service
KindOf(name) ==
    LET hc == ServiceNamed(name).health_check IN
    IF ~IsSome(hc) THEN "none"
    ELSE IF Unwrap(hc).type_entry = <<"h", "t", "t", "p">> THEN "http"
    ELSE IF Unwrap(hc).type_entry = <<"p", "o", "r", "t">> THEN "port"
    ELSE "other"

\* the health check of the service has a target to probe
HasTarget(name) ==
    \/ KindOf(name) = "http"
    \/ KindOf(name) = "port" /\ IsSome(Unwrap(ServiceNamed(name).health_check).port)

\* C23: a port or http health check whose target never becomes ready ends
\* in a timeout failure; it does not return success, and a success means
\* that a poll has observed the target to be ready.
C23_HealthCheckObservesReadiness ==
    \A i \in 1..Len(events) :
        (events[i].ev = "health_check_passed" /\ HasTarget(events[i].service))
            => events[i].service \in ready

\* C24: a health check whose kind is neither http nor port succeeds at
\* once, without a wait, and the start sequence goes on with the next
\* service.
C24_UnrecognizedKindSucceedsAtOnce ==
    [][(pc = "fg_health" /\ KindOf(sorted_services[idx].name) = "other") =>
          /\ pc' = "fg_loop"
          /\ idx' = idx + 1
          /\ result' = result
          /\ events' = events \o
                << Event("unrecognized_health_check", sorted_services[idx].name, <<>>),
                   Event("health_check_passed", sorted_services[idx].name, <<>>) >>
      ]_vars

\* the check of kind "tcp" of service A has just passed and the loop is at
\* the next service
C24_Witness ==
    /\ pc = "fg_loop"
    /\ idx > 1
    /\ KindOf(sorted_services[idx - 1].name) = "other"
    /\ Len(events) >= 2
    /\ events[Len(events)] =
          Event("health_check_passed", sorted_services[idx - 1].name, <<>>)
    /\ events[Len(events) - 1] =
          Event("unrecognized_health_check", sorted_services[idx - 1].name, <<>>)
    /\ EventCount("health_sleep", sorted_services[idx - 1].name) = 0

\* C25: a dry-run start spawns no process, never takes the registry lock and
\* leaves the registry as it was (an empty registry still has count 0),
\* whatever the filters and the background flag.
C25_DryRunTouchesNothing ==
    args.dry_run =>
        /\ Untouched
        /\ alive = {}
        /\ initial_processes = <<>> => process_count(processes) = 0

\* a dry run in background mode with an only list has printed its plan and
\* returned Ok on an empty registry
C25_Witness ==
    /\ Done
    /\ args.dry_run
    /\ args.background
    /\ IsSome(args.only)
    /\ Unwrap(result) = Ok
    /\ plan # <<>>
    /\ initial_processes = <<>>

\* C26: the plan that dry-run renders lists the services in the resolved
\* dependency order, the order in which a real start would spawn them, and
\* marks each one as to be started or filtered out.
C26_PlanInResolvedOrder ==
    (Done /\ args.dry_run /\ Unwrap(result).ok) =>
        LET order == sort_services_by_dependencies(ProjectServices) IN
        /\ Len(plan) = Len(order)
        /\ \A i \in 1..Len(plan) :
              /\ plan[i].name = order[i].name
              /\ plan[i].start = (order[i].name \in Selected)

\* the marks of the plan alone, in the order of the declaration
PlanMarksFilter ==
    (Done /\ args.dry_run /\ Unwrap(result).ok) =>
        /\ Len(plan) = Len(ProjectServices)
        /\ \A i \in 1..Len(plan) :
              /\ plan[i].name = ProjectServices[i].name
              /\ plan[i].start = (ProjectServices[i].name \in Selected)

\* the spawn of the i-th attempt failed
SpawnFailedAt(i) == i \in 1..Len(spawn_log) /\ spawn_log[i].pid = 0

\* the records that this run added to the registry
AddedRecords == DOMAIN processes \ DOMAIN initial_processes

\* no record of this run is of the service
NoRecordOf(name) ==
    \A q \in AddedRecords : processes[q].info.service_name # name

\* C27: in foreground mode, when the spawn of a service fails, start returns
\* an error at once: the service gets no record, no later service is
\* spawned, and the services started before it keep their Running records
\* and are not killed.
C27_ForegroundSpawnFailureAborts ==
    ~args.background =>
        \A i \in 1..Len(spawn_log) :
            SpawnFailedAt(i) =>
                /\ Done
                /\ ~Unwrap(result).ok
                /\ i = Len(spawn_log)
                /\ NoRecordOf(spawn_log[i].service)
                /\ \A j \in 1..(i - 1) :
                      /\ spawn_log[j].pid \in AddedRecords
                      /\ processes[spawn_log[j].pid].info.service_name
                            = spawn_log[j].service
                      /\ processes[spawn_log[j].pid].info.status = Running
                      /\ [call |-> "kill", pid |-> spawn_log[j].pid]
                            \notin Range(teardown_log)

\* the spawn of the third service of the chain has failed after two
\* services were started
C27_Witness ==
    /\ ~args.background
    /\ Len(spawn_log) = 3
    /\ SpawnFailedAt(3)
    /\ pc = "exited"

\* C29: a failure to spawn the command of a service is reported as a
\* ProcessError, not as any other kind of error.
C29_SpawnFailureIsProcessError ==
    (~args.background /\ Done /\ SpawnFailedAt(Len(spawn_log))) =>
        /\ ~Unwrap(result).ok
        /\ Unwrap(result).kind = "ProcessError"

\* the background sequence is over: the caller has returned and the task
\* that runs the sequence, if there is one, has ended
BackgroundOver == Done /\ task_pc \in {"none", "t_ended"}

\* the run logged that the service could not be started
FailureLogged(name) ==
    \/ Logged("failed_to_start", name, <<>>)
    \/ Logged("background_service_error", name, <<>>)

\* C28: in background mode, when the spawn of a service fails, the failure
\* is logged, the service gets no record, the remaining services of the
\* sequence are still attempted, and start returns no error.
C28_BackgroundSpawnFailureSkipsService ==
    (args.background /\ BackgroundOver /\ \E i \in 1..Len(spawn_log) : SpawnFailedAt(i))
        => /\ Unwrap(result).ok
           /\ \A i \in 1..Len(spawn_log) :
                 SpawnFailedAt(i) =>
                    /\ FailureLogged(spawn_log[i].service)
                    /\ NoRecordOf(spawn_log[i].service)
           /\ Attempted = Selected

\* the pids a run can give to its children: one per service, after the pid
\* of a record that was there before
StartPids == 1..(MaxServices + 1)

\* the process of a record that a foreground run registered has ended
ExitedInForeground(pid) ==
    /\ ~args.background
    /\ pid \in AddedRecords
    /\ pid \notin alive

\* the registry does not hold a Running record for the pid
NotRunning(pid) ==
    pid \in DOMAIN processes => processes[pid].info.status # Running

\* C30: in foreground mode each spawned process has a monitor that, when
\* the process exits, moves its record from Running to Stopped or Failed,
\* so that the service is eventually no longer reported as running.
C30_ExitedProcessStopsRunning ==
    \A pid \in StartPids : ExitedInForeground(pid) ~> NotRunning(pid)

\* the pids of the Running records of a service of the project
RecordsOf(procs, name) ==
    {q \in DOMAIN procs :
        /\ procs[q].info.project_name = ProjectName
        /\ procs[q].info.service_name = name
        /\ procs[q].info.status = Running}

\* C31: within one start call every declared service is spawned at most
\* once, in foreground and in background mode; the registry does not
\* deduplicate: a service that an earlier start call of the same project
\* registered has, once this call has registered it too, both Running
\* records.
C31_SpawnedOncePerCallNoDedup ==
    /\ \A i, j \in 1..Len(spawn_log) :
          spawn_log[i].service = spawn_log[j].service => i = j
    /\ \A i \in 1..Len(spawn_log) :
          spawn_log[i].pid \in DOMAIN processes =>
             /\ spawn_log[i].pid \notin DOMAIN initial_processes
             /\ RecordsOf(processes, spawn_log[i].service) =
                   RecordsOf(initial_processes, spawn_log[i].service)
                      \cup {spawn_log[i].pid}

\* a second start of the chain has registered A, which the first start had
\* registered already, and has gone on to spawn B and C
C31_Witness ==
    /\ initial_processes = PriorRecord
    /\ Len(spawn_log) = 3
    /\ Cardinality(RecordsOf(processes, <<"A">>)) = 2
    /\ Done

\* C32: the records that one start invocation registered are still there,
\* and are listed under the project name, in a later command invocation
\* made after the start command has exited.
C32_RecordsSurviveTheCommand ==
    pc = "later_done" =>
        \A i \in 1..Len(spawn_log) :
            spawn_log[i].pid # 0 =>
                \E r \in listing.result : r.info.pid = spawn_log[i].pid

\* what the run logs while it waits for the dependencies of a service, and
\* what it logs while it probes the health of one
WaitEvents == {"waiting_for_dependency", "dependency_sleep"}

ProbeEvents == {"health_sleep", "unrecognized_health_check", "health_check_passed"}

\* the positions of the events of a service that are of one of the kinds
PositionsOf(name, kinds) ==
    {i \in 1..Len(events) : events[i].service = name /\ events[i].ev \in kinds}

\* C33: in foreground mode, for each service that is spawned, the wait for
\* its dependencies is over before the spawn, the registration is the very
\* next step after the spawn (no sleep or other suspension in between, and
\* the record is in the registry from then on), the health probe comes
\* after the registration, and the next service is spawned only after the
\* probe has returned.
C33_ForegroundStepOrder ==
    ~args.background =>
        \A s \in 1..Len(events) :
            events[s].ev = "spawned" =>
                LET n == events[s].service IN
                /\ \A i \in PositionsOf(n, WaitEvents) : i < s
                /\ IF s = Len(events)
                   THEN pc = "fg_register" /\ ~AtAwait
                   ELSE /\ events[s + 1] = Event("registered", n, <<>>)
                        /\ \E i \in 1..Len(spawn_log) :
                              /\ spawn_log[i].service = n
                              /\ spawn_log[i].pid \in RecordsOf(processes, n)
                /\ \A i \in PositionsOf(n, ProbeEvents) : i > s + 1
                /\ \A t \in (s + 1)..Len(events) :
                      events[t].ev = "spawned" =>
                         /\ \A i \in PositionsOf(n, WaitEvents \cup ProbeEvents) : i < t
                         /\ KindOf(n) # "none" =>
                               \E i \in (s + 2)..(t - 1) :
                                  events[i] = Event("health_check_passed", n, <<>>)

\* the chain was started in foreground: B waited for nothing, was spawned,
\* registered and probed, and C has been spawned after it
C33_Witness ==
    /\ ~args.background
    /\ pc = "fg_register"
    /\ Len(spawn_log) = 3
    /\ sorted_services[idx].name = <<"C">>
    /\ PositionsOf(<<"B">>, {"health_sleep"}) # {}
    /\ PositionsOf(<<"A">>, {"registered"}) # {}

\* the records that this run added for a service
AddedRecordsOf(name) ==
    {q \in AddedRecords : processes[q].info.service_name = name}

\* execute has taken the foreground path and stands at start_services
ForegroundStarts == pc = "fg_sort"

\* the foreground run is over; if no spawn failed it returned Ok, every
\* service that passes the filter has exactly one Running record of this
\* run, and a registry that was empty holds as many records as services
\* pass the filter
ForegroundOutcome ==
    /\ Done
    /\ NoSpawnFailed =>
          /\ Unwrap(result).ok
          /\ \A n \in Selected :
                /\ Cardinality(AddedRecordsOf(n)) = 1
                /\ AddedRecordsOf(n) \subseteq RecordsOf(processes, n)
          /\ \A n \in Declared \ Selected : AddedRecordsOf(n) = {}
          /\ initial_processes = <<>> =>
                process_count(processes) = Cardinality(Selected)

\* C34: in foreground mode start_services terminates on every service list,
\* and if every spawn succeeded it returns Ok whatever the kinds of the
\* health checks and whether the dependencies run, with exactly one Running
\* record per service that passes the filter; from an empty registry
\* process_count is then the number of these services.
C34_ForegroundTerminatesWithOneRecordEach ==
    ForegroundStarts ~> ForegroundOutcome

\* the two services of the cycle, one with a check of an unknown kind and
\* one with a dependency that is not declared, were started from an empty
\* registry and the run returned Ok
C34_Witness ==
    /\ ~args.background
    /\ Done
    /\ config_file.services = Some(CycleProject)
    /\ initial_processes = <<>>
    /\ NoSpawnFailed
    /\ Unwrap(result).ok
    /\ process_count(processes) = 2
    /\ Selected = {<<"A">>, <<"B">>}

\* the records the registry holds
Records == {processes[q] : q \in DOMAIN processes}

\* C35: the list-by-project query returns exactly the records of the
\* registry whose project name is the argument and whose status is
\* Running, and the empty list for a project that has no record; the
\* list-all query returns every record of the registry, whatever its
\* status.
C35_ListQueries ==
    /\ listing.kind = "project" =>
          /\ listing.result \subseteq Records
          /\ \A r \in Records :
                r \in listing.result <=>
                   /\ r.info.project_name = listing.project
                   /\ r.info.status = Running
          /\ (\A r \in Records : r.info.project_name # listing.project)
                => listing.result = {}
    /\ listing.kind = "all" =>
          /\ listing.result \subseteq Records
          /\ \A r \in Records : r \in listing.result
          /\ Cardinality(listing.result) = process_count(processes)

\* a registry with a Running and a Stopped record of one project was listed
\* by that project: the list holds the Running record only
C35_Witness ==
    /\ listing.kind = "project"
    /\ Cardinality(listing.result) = 1
    /\ \E r \in Records :
          /\ r.info.project_name = listing.project
          /\ r.info.status = "Stopped"
    /\ \E r \in listing.result : r.info.status = Running

\* execute stands at a call of get_global_state()
AtLock == pc \in {"fg_lock", "bg_lock"}

\* execute holds the MutexGuard
Held == lock = Executor

\* C36: a start call that has taken the registry mutex releases it on every
\* path, also when it returns an error; it never calls get_global_state()
\* while it holds the guard, and it holds none when it has returned: it
\* cannot block on the registry by itself.
C36_LockReleasedNeverRetaken ==
    /\ [](AtLock => ~Held)
    /\ [](Done => ~Held)
    /\ (Held ~> ~Held)

\* a foreground run took the mutex once, a spawn failed, and the run has
\* returned the error with the mutex free
C36_Witness ==
    /\ ~args.background
    /\ Done
    /\ lock_count = 1
    /\ Len(spawn_log) = 2
    /\ SpawnFailedAt(2)
    /\ ~Unwrap(result).ok
    /\ ~Held

\* the background call that followed the foreground call has returned
BothModesDone == args.background /\ Done

\* what the foreground call spawned and registered: its registrations are
\* the registry as it was between the two calls
ForegroundSpawned ==
    {spawn_log[i].service :
        i \in {j \in 1..Len(spawn_log) : spawn_log[j].pid \in DOMAIN initial_processes}}

ForegroundRegistered ==
    {initial_processes[q].info.service_name : q \in DOMAIN initial_processes}

\* what the background call spawned and registered
BackgroundSpawned ==
    {spawn_log[i].service :
        i \in {j \in 1..Len(spawn_log) : spawn_log[j].pid \notin DOMAIN initial_processes}}

BackgroundRegistered ==
    {processes[q].info.service_name : q \in AddedRecords}

\* C37: on the same project with the same filter, when every spawn
\* succeeds, the foreground call and the background call spawn the same set
\* of services and register the same set of services.
C37_ModesStartTheSameServices ==
    (BothModesDone /\ NoSpawnFailed) =>
        /\ ForegroundSpawned = BackgroundSpawned
        /\ ForegroundRegistered = BackgroundRegistered
        /\ ForegroundSpawned = ForegroundRegistered

\* skip = [A] on the chain declared as C, B, A: both calls have started B
\* and C, the first B before C and the second C before B
C37_Witness ==
    /\ BothModesDone
    /\ NoSpawnFailed
    /\ args.skip = Some(<< <<"A">> >>)
    /\ config_file.services = Some(<<StartC, StartB, StartA>>)
    /\ Len(spawn_log) = 4
    /\ spawn_log[1].service = <<"B">>
    /\ spawn_log[3].service = <<"C">>
    /\ BackgroundRegistered = {<<"B">>, <<"C">>}

(***************************************************************************)
(* Properties of the registry under concurrent use.                        *)
(***************************************************************************)
\* C10: a query is_service_running(p, s) issued after an add_process for
\* (p, s) has returned answers true, whatever the interleaving with other
\* tasks, as long as no record of (p, s) is removed in between.
C10_RegisteredIsVisible ==
    \A t \in Tasks :
        (tpc[t] \in {"unlocking", "returned"} /\ top[t].kind = "is_running" /\ tstable[t])
            => tres[t] = TRUE

\* a query issued after the registration returned has been answered, while
\* the other task was registering a second process
C10_Witness ==
    \E t, u \in Tasks :
        /\ t # u
        /\ tpc[t] = "returned"
        /\ top[t].kind = "is_running"
        /\ tstable[t]
        /\ tres[t] = TRUE
        /\ top[u].kind = "add"
        /\ tpc[u] = "unlocking"
        /\ process_count(processes) = 2

\* the keys of the records of a project and a service whose status is Running
MatchingRunning(p, sv) ==
    {q \in DOMAIN processes :
        /\ processes[q].info.project_name = p
        /\ processes[q].info.service_name = sv
        /\ processes[q].info.status = Running}

\* a task has evaluated is_service_running and still holds the guard
Answered(t) ==
    tpc[t] = "unlocking" /\ top[t].kind = "is_running"

\* C12: is_service_running(project, service) is true if and only if the
\* registry holds at least one record with that project name, that service
\* name and status Running; a Running record of the service under another
\* project does not make it true.
C12_RunningIffMatchingRecord ==
    \A t \in Tasks :
        Answered(t) =>
            (tres[t] <=> Cardinality(MatchingRunning(top[t].project, top[t].service)) >= 1)

\* a query was answered false while the service runs under another project
C12_Witness ==
    \E t \in Tasks :
        /\ Answered(t)
        /\ tres[t] = FALSE
        /\ \E q \in DOMAIN processes :
              /\ processes[q].info.service_name = top[t].service
              /\ processes[q].info.project_name # top[t].project
              /\ processes[q].info.status = Running

(***************************************************************************)
(* Properties of a ProcessState in the hands of one owner.                 *)
(***************************************************************************)
\* the last mutating call
LastCall == trail[Len(trail)]

LastIs(kind) == ~dropped /\ Len(trail) > 0 /\ LastCall.kind = kind

\* C13: add_process inserts, keyed by the child's process id, one record with
\* the given service name, project name and command and status Running; a new
\* ProcessState has count 0; a process id appears in the registry at most
\* once, and the count grows by one exactly when the id was not present.
C13_AddInsertsOneRecordByPid ==
    /\ (trail = <<>> /\ ~dropped) => process_count(processes) = 0
    /\ \A q \in DOMAIN processes :
          /\ processes[q].info.pid = q
          /\ processes[q].child.id = q
          /\ Cardinality({r \in DOMAIN processes :
                            processes[r].info.pid = processes[q].info.pid}) = 1
    /\ LastIs("add") =>
          /\ LastCall.pid \in DOMAIN processes
          /\ processes[LastCall.pid].info =
                [pid |-> LastCall.pid, service_name |-> LastCall.service,
                 project_name |-> LastCall.project,
                 command |-> CommandOf(LastCall.service), status |-> "Running"]
          /\ process_count(processes) =
                process_count(LastCall.pre) +
                (IF LastCall.pid \in DOMAIN LastCall.pre THEN 0 ELSE 1)
          /\ \A q \in DOMAIN LastCall.pre :
                q # LastCall.pid => processes[q] = LastCall.pre[q]

\* a second record was added to a registry that held one
C13_Witness ==
    /\ LastIs("add")
    /\ process_count(LastCall.pre) = 1
    /\ process_count(processes) = 2

\* C14: remove_process of a process id that is not in the registry returns
\* Ok and leaves every record and the count as they were.
C14_RemoveAbsentIsNoOp ==
    (LastIs("remove") /\ LastCall.pid \notin DOMAIN LastCall.pre) =>
        /\ LastCall.ret = Ok
        /\ processes = LastCall.pre
        /\ process_count(processes) = process_count(LastCall.pre)

\* an absent pid was removed from a registry that holds a record
C14_Witness ==
    /\ LastIs("remove")
    /\ LastCall.pid \notin DOMAIN LastCall.pre
    /\ process_count(LastCall.pre) >= 1

\* the record with a given pid is among the records a query returned
Lists(pid) == \E r \in listing.result : r.info.pid = pid

\* C15: after add_process the record is returned by the list-all query and
\* by the list-by-project query of its project; after remove_process(pid) of
\* that record it is returned by neither, and the registry and its count are
\* what they were before the add.
C15_AddThenRemoveRestores ==
    /\ (LastIs("add") /\ listing.kind = "all") => Lists(LastCall.pid)
    /\ (LastIs("add") /\ listing.kind = "project"
            /\ listing.project = LastCall.project) => Lists(LastCall.pid)
    /\ (LastIs("remove") /\ listing.kind # "none") => ~Lists(LastCall.pid)
    /\ (LastIs("remove") /\ Len(trail) = 2 /\ trail[1].kind = "add"
            /\ trail[1].pid = LastCall.pid) =>
          /\ processes = trail[1].pre
          /\ process_count(processes) = process_count(trail[1].pre)

\* a record was added to a registry that held another one, removed again,
\* and the registry was listed
C15_Witness ==
    /\ LastIs("remove")
    /\ Len(trail) = 2
    /\ trail[1].kind = "add"
    /\ trail[1].pid = LastCall.pid
    /\ process_count(trail[1].pre) = 1
    /\ listing.kind = "all"

\* the records that own the handle of a process
OwnersOf(pid) == {q \in DOMAIN processes : processes[q].child.id = pid}

\* C16: every spawned process that is still alive is owned by exactly one
\* registry record; no operation discards the handle of a live process
\* without terminating the process.
C16_LiveProcessesOwned ==
    \A pid \in alive : Cardinality(OwnersOf(pid)) = 1

\* how often Drop made a call on the handle of a process
Calls(call, pid) ==
    Cardinality({i \in 1..Len(teardown_log) :
                    teardown_log[i] = [call |-> call, pid |-> pid]})

\* Drop called kill and then wait on the handle, each once
KilledThenWaitedOnce(pid) ==
    /\ Calls("kill", pid) = 1
    /\ Calls("wait", pid) = 1
    /\ \E i \in 1..(Len(teardown_log) - 1) :
          /\ teardown_log[i] = [call |-> "kill", pid |-> pid]
          /\ teardown_log[i + 1] = [call |-> "wait", pid |-> pid]

\* Drop for ProcessState by itself: every handle the registry held is killed
\* and then waited for once, the map is left empty, and none of these
\* processes is alive afterwards
DropKillsAndWaitsEach ==
    dropped =>
        /\ processes = <<>>
        /\ Len(teardown_log) = 2 * process_count(LastCall.pre)
        /\ \A q \in DOMAIN LastCall.pre :
              /\ KilledThenWaitedOnce(LastCall.pre[q].child.id)
              /\ LastCall.pre[q].child.id \notin alive

\* the processes that start spawned and registered
Registered == {spawn_log[i].pid : i \in 1..Len(spawn_log)} \ {0}

\* C17: when a ProcessState that holds records is torn down, kill and then
\* wait are attempted once on every handle and the registry is left empty;
\* this teardown runs for the registry used by start when the run ends.
C17_TeardownAtRunEnd ==
    pc = "exited" =>
        /\ processes = <<>>
        /\ \A pid \in Registered : KilledThenWaitedOnce(pid)

\* two registries hold the same records under every pid other than one
SameElsewhere(pre, post, pid) ==
    \A q \in (DOMAIN pre \cup DOMAIN post) \ {pid} :
        /\ q \in DOMAIN pre
        /\ q \in DOMAIN post
        /\ post[q] = pre[q]

\* the step is a query: it has put a new answer into listing
QueryStep == listing' # listing /\ listing'.kind # "none"

\* C38: add_process and remove_process for a process id leave every record
\* that is stored under another process id as it was, and a step that is
\* an is_service_running, a process_count or a list query leaves the whole
\* registry as it was.
C38_FrameOfRegistryCalls ==
    /\ []((LastIs("add") \/ LastIs("remove")) =>
             SameElsewhere(LastCall.pre, processes, LastCall.pid))
    /\ [][QueryStep => processes' = processes]_vars

\* a record was added beside another one and the registry was then asked
\* whether a service is running
C38_Witness ==
    /\ LastIs("add")
    /\ DOMAIN LastCall.pre # {}
    /\ process_count(processes) = 2
    /\ listing.kind = "is_service_running"

====
